---------------------------- MODULE Spec2Model ----------------------------
(***************************************************************************)
(* VoiceGuide AirLink backend: license / session / listener lifecycle,     *)
(* the session termination engine, the expiry sweeper and the webhook      *)
(* outbox, modelled from app/crud/license_crud.py, app/core/session_end.py,*)
(* app/core/utils.py, app/core/scheduler.py and app/services/event_bus.py. *)
(*                                                                         *)
(* The relational store is the committed state (licenses, sessions,        *)
(* listeners, events, outbox).  Every request handler, sweeper tick and    *)
(* delivery task works on its own SQLAlchemy session: it reads rows into   *)
(* a private snapshot, changes attributes locally and writes, at commit,   *)
(* only the columns whose value differs from the loaded one.               *)
(***************************************************************************)
EXTENDS Integers, Sequences, FiniteSets, Bags, TLC

\* ------------------------------------------------------------------------
\* Bounds of the model
\* ------------------------------------------------------------------------
\* the clock stops after this many ticks
MaxNow == 2
\* license rows
NumLicenses == 1
\* size of the PIN space gen_pin draws from
NumPins == 2
\* session rows the ledger specifications create
MaxSessions == 2
\* listener rows in the engine specification
MaxListenerRows == 1
\* failing inserts of log_event
MaxLogFailures == 1
\* KILL_SWITCH_START rows in the events table
MaxKillEvents == 1
\* rows of the outbox
MaxEvents == 1
\* executions of _deliver_event scheduled and not finished
MaxTasks == 2
\* failed deliveries counted on one row
MaxRetries == 3

\* ------------------------------------------------------------------------
\* Program constants
\* ------------------------------------------------------------------------
\* clock resolution: 30 seconds
TicksPerMinute == 2
PIN_GENERATION_TRIES == 6
ALLOWED_MAX_LISTENERS == {10, 25, 35, 100}
DefaultMaxListeners == 10

\* settings.RETRY_LIMIT
RETRY_LIMIT == 200

\* a NULL timestamp column
NoTime == -1
\* a None row reference
NoId == 0

LicenseCodes == 1..NumLicenses
PinSpace == 1..NumPins
Procs == {"r1", "r2", "sw"}
TaskSlots == 1..MaxTasks

\* the keys of an event payload that some schema reads
Fields ==
    {"id", "created_at", "session_id", "pin", "listener_id", "duration_seconds",
     "event_log_id", "target_url", "reason"}

\* a key is absent, or has a value that the schemas accept (a UUID4, a
\* datetime, a PIN of 6 characters, a duration >= 0, a string), or one that
\* they refuse
FieldValues == {"absent", "valid", "invalid"}

\* BaseEvent: id, type and created_at; type is set by queue_event itself
BaseEvent == {"id", "created_at"}

\* EVENT_SCHEMAS: event type -> the required fields of its schema
EVENT_SCHEMAS ==
    [session_started |-> BaseEvent \cup {"session_id", "pin"},
     listener_joined |-> BaseEvent \cup {"session_id", "listener_id"},
     session_ended   |-> BaseEvent \cup {"session_id", "duration_seconds"},
     delivery_sent   |-> BaseEvent \cup {"event_log_id", "target_url"},
     delivery_failed |-> BaseEvent \cup {"event_log_id", "target_url", "reason"}]

\* the fields each schema declares itself, without those it inherits from
\* BaseEvent
OwnFields ==
    [session_started |-> {"session_id", "pin"},
     listener_joined |-> {"session_id", "listener_id"},
     session_ended   |-> {"session_id", "duration_seconds"},
     delivery_sent   |-> {"event_log_id", "target_url"},
     delivery_failed |-> {"event_log_id", "target_url", "reason"}]

\* the event types callers pass: the registered ones, license_activated
\* (passed by the API layer, not registered) and the empty string
EventTypeInputs == DOMAIN EVENT_SCHEMAS \cup {"license_activated", ""}

\* the payload with the keys of S, all with accepted values but bad
PayloadOver(S, bad) ==
    [f \in Fields |-> IF f \notin S THEN "absent"
                      ELSE IF f = bad THEN "invalid" ELSE "valid"]

\* the payloads callers pass: all the fields of a schema, or only those the
\* schema declares itself (the API layer passes no id and no created_at),
\* with at most one refused value
Payloads ==
    {PayloadOver(S, bad) :
        S \in {EVENT_SCHEMAS[t] : t \in DOMAIN EVENT_SCHEMAS}
                \cup {OwnFields[t] : t \in DOMAIN OwnFields},
        bad \in Fields \cup {"none"}}

\* the bound of the receiver's clock, time.time()
MaxClock == 3

\* the HMAC secrets and the request bodies
Secrets == {1, 2}

Bodies == {1, 2, 3}

\* the max_age_seconds the receiver passes
MaxAgeInputs == {1, 2}

\* the value of header X-Webhook-Timestamp: missing (or empty), a text that
\* int() refuses, or a text that int() reads as val, written as str(val)
\* (plain) or in another way that int() accepts (padded)
MissingTs == [kind |-> "missing", val |-> 0, form |-> "plain"]

TextTs == [kind |-> "text", val |-> 0, form |-> "plain"]

TsHeaders ==
    {MissingTs, TextTs}
        \cup {[kind |-> "num", val |-> v, form |-> f] : v \in 0..MaxClock, f \in {"plain", "padded"}}

\* str(int(time.time())) at time t
str_int(t) == [kind |-> "num", val |-> t, form |-> "plain"]

\* no header X-Webhook-Signature
NoSig == [present |-> FALSE, secret |-> 0, ts |-> MissingTs, body |-> 0]

\* hmac.new(secret, f"{ts}." + body, sha256).hexdigest(): the digest is
\* taken as determined by, and determining, the key and the signed bytes
hmac_digest(secret, ts, body) == [present |-> TRUE, secret |-> secret, ts |-> ts, body |-> body]

\* no request so far
NoHook ==
    [sent |-> FALSE, signed_body |-> 0, ts |-> MissingTs, sig |-> NoSig, body |-> 0,
     clock |-> 0, checked |-> FALSE, secret |-> 0, max_age |-> 0, at |-> 0,
     ok |-> FALSE, error |-> "none", validated |-> FALSE, response |-> 0]

\* no call of post_webhook so far
NoPost ==
    [phase |-> "idle", max_retries |-> 0, attempt |-> 0, backoff |-> 0,
     posts |-> 0, waits |-> <<>>, status_code |-> 0, err |-> "none",
     result |-> <<FALSE, "none">>]

\* no call of queue_event nor of POST /retry-failed so far
NoCall ==
    [event_type |-> "", payload |-> [f \in Fields |-> "absent"],
     raised |-> "none", returned |-> NoId, limit |-> 0, scheduled_ids |-> <<>>]

\* the scheduler before start_scheduler: no task handle on app.state and no
\* loop task; a loop task is [kind, at, failed], its id the index in loops;
\* stopping is whether stop_scheduler is between its two halves, starts the
\* number of calls of start_scheduler made so far
SchedulerOff ==
    [retry_task |-> NoId, auto_close_task |-> NoId, loops |-> <<>>, stopping |-> FALSE,
     starts |-> 0]

\* duration_minutes of the license rows (column licenses.duration_minutes)
DurationMinutes(c) == 1

VARIABLES
    now,          \* datetime.utcnow(), in ticks
    licenses,     \* table licenses: code -> row
    sessions,     \* table sessions: sequence of rows, id = index
    listeners,    \* table listeners: sequence of rows, id = index
    events,       \* table events: the bag of rows inserted by log_event
    kill_log,     \* the invocations of the kill switch callback made so far
    log_failures, \* number of failed log_event inserts so far
    consumed,     \* licenses for which a start returned a session since the last reactivate
    pc,           \* position of every handler / task
    loc,          \* private state (SQLAlchemy session and locals) of every handler / task
    outbox,       \* table event_logs: sequence of rows, oldest first
    tasks,        \* the scheduled executions of _deliver_event
    endpoint,     \* "flaky", or "ok" once the webhook endpoint answers 2xx for good
    webhook_url,  \* whether settings.ADMIN_WEBHOOK_URL is set
    enq,          \* the last call of queue_event or POST /retry-failed: arguments, outcome
    hook,         \* the signed webhook request in flight and the receiver's verdict on it
    sched,        \* app.state.retry_task, app.state.auto_close_task and the loop tasks
    post          \* the locals of the post_webhook call in progress and its return value

lifecycle_vars == <<now, licenses, sessions, listeners, events, kill_log,
                    log_failures, consumed, pc, loc>>
outbox_vars == <<outbox, tasks, endpoint, webhook_url, enq, hook, sched, post>>

------------------------------------------------------------------------------
\* Rows

LicenseRow(c) ==
    [is_active |-> FALSE, activated_at |-> NoTime,
     duration_minutes |-> DurationMinutes(c), max_listeners |-> DefaultMaxListeners]

SessionIds == DOMAIN sessions
ListenerIds == DOMAIN listeners

\* session.listeners: the listeners whose session_id is sid
ListenersOfAny(sid) == ListenerIds

ListenersOf(sid) == {l \in ListenerIds : listeners[l].session_id = sid}

\* Session.active_listeners: number of listeners still connected
active_listeners(sid) == Cardinality({l \in ListenersOf(sid) : listeners[l].is_connected})

\* an ascending sequence of the elements of a finite set of integers
RECURSIVE SetToSeq(_)
SetToSeq(S) ==
    IF S = {} THEN <<>>
    ELSE LET m == CHOOSE x \in S : \A y \in S : x <= y
         IN <<m>> \o SetToSeq(S \ {m})

\* compute_expiry(start, minutes)
compute_expiry(start, minutes) == start + minutes * TicksPerMinute

Max(a, b) == IF a >= b THEN a ELSE b

\* the private state of an idle handler
IdleLoc ==
    [op |-> "none", result |-> "none",
     lic |-> NoId, licsnap |-> LicenseRow(1), ml_given |-> FALSE, ml |-> 0,
     lic_dirty |-> FALSE, pin |-> NoId, tries |-> 0, newsess |-> <<>>,
     after_ok |-> FALSE, pre_nsess |-> 0,
     sid |-> NoId, ssnap |-> [is_active |-> FALSE, ended_at |-> NoTime],
     set_inactive |-> FALSE, set_ended |-> FALSE, ended_val |-> NoTime,
     lst |-> <<>>, lsnap |-> <<>>, idx |-> 1, ldirty |-> {},
     modified |-> FALSE, expired |-> FALSE, late |-> FALSE,
     reason |-> "manual", logger |-> "none", ks |-> FALSE,
     was_active |-> FALSE, ended_emitted |-> FALSE, left_emitted |-> 0,
     cands |-> <<>>, csnap |-> <<>>, swept |-> {}, closed |-> 0]

\* what stays of a finished call: its result
Done(l) ==
    [IdleLoc EXCEPT !.op = l.op, !.result = l.result, !.sid = l.sid, !.lic = l.lic,
                    !.after_ok = l.after_ok, !.pre_nsess = l.pre_nsess,
                    !.late = l.late, !.was_active = l.was_active,
                    !.swept = l.swept, !.closed = l.closed]

Idle(p) == pc[p] = "idle"
AllIdle == \A p \in Procs : Idle(p)

------------------------------------------------------------------------------
\* License Ledger

\* "activated_at is not None and not is_active": the license was used
LicenseUsedNever(lic) == FALSE

LicenseUsed(lic) == lic.activated_at # NoTime /\ ~lic.is_active

\* the first activation of a license row at time t
FirstActivationUnstamped(lic, t) == [lic EXCEPT !.is_active = TRUE]

FirstActivation(lic, t) == [lic EXCEPT !.is_active = TRUE, !.activated_at = t]

\* activate_license(db, code): one read and at most one commit
activate_license(p, c) ==
    /\ Idle(p)
    /\ LET lic == licenses[c]
       IN IF LicenseUsed(lic)
          THEN /\ loc' = [loc EXCEPT ![p] = [IdleLoc EXCEPT !.op = "activate", !.lic = c,
                                                            !.result = "license_used"]]
               /\ UNCHANGED licenses
          ELSE IF lic.activated_at = NoTime
          THEN /\ licenses' = [licenses EXCEPT ![c] = FirstActivation(lic, now)]
               /\ loc' = [loc EXCEPT ![p] = [IdleLoc EXCEPT !.op = "activate", !.lic = c,
                                                            !.result = "ok",
                                                            !.ml = lic.duration_minutes]]
          ELSE /\ loc' = [loc EXCEPT ![p] =
                      [IdleLoc EXCEPT !.op = "activate", !.lic = c, !.result = "ok",
                          !.ml = Max(0, lic.duration_minutes
                                        - Max(0, (now - lic.activated_at) \div TicksPerMinute))]]
               /\ UNCHANGED licenses
    /\ UNCHANGED <<now, sessions, listeners, events, kill_log, log_failures, consumed, pc>>

\* admin_revoke(db, license_id)
admin_revoke(p, c) ==
    /\ Idle(p)
    /\ licenses' = [licenses EXCEPT ![c].is_active = FALSE]
    /\ loc' = [loc EXCEPT ![p] = [IdleLoc EXCEPT !.op = "revoke", !.lic = c, !.result = "ok"]]
    /\ UNCHANGED <<now, sessions, listeners, events, kill_log, log_failures, consumed, pc>>

\* admin_reactivate(db, license_id)
admin_reactivate(p, c) ==
    /\ Idle(p)
    /\ licenses' = [licenses EXCEPT ![c].is_active = TRUE]
    /\ consumed' = consumed \ {c}
    /\ loc' = [loc EXCEPT ![p] = [IdleLoc EXCEPT !.op = "reactivate", !.lic = c, !.result = "ok"]]
    /\ UNCHANGED <<now, sessions, listeners, events, kill_log, log_failures, pc>>

------------------------------------------------------------------------------
\* Session Registry: start_session

ActivePins == {sessions[s].pin : s \in {t \in SessionIds : sessions[t].is_active}}

StartsInFlight == Cardinality({q \in Procs : loc[q].op = "start" /\ ~Idle(q)})

\* the route loads the license row: get_license_by_code(db, code)
get_license_by_code(p, c, given, req) ==
    /\ Idle(p)
    /\ pc' = [pc EXCEPT ![p] = "start_check"]
    /\ loc' = [loc EXCEPT ![p] = [IdleLoc EXCEPT !.op = "start", !.result = "pending",
                                     !.lic = c, !.licsnap = licenses[c],
                                     !.ml_given = given, !.ml = req,
                                     !.after_ok = (c \in consumed),
                                     !.pre_nsess = Len(sessions)]]
    /\ UNCHANGED <<now, licenses, sessions, listeners, events, kill_log, log_failures, consumed>>

\* license_obj.is_active = False; db.add(license_obj): the license is consumed
\* in the transaction that inserts the session
ConsumeLicenseSkipped(lics, c) == lics

ConsumeLicense(lics, c) == [lics EXCEPT ![c].is_active = FALSE]

\* the lazy expiry of start_session_for_license: license_obj.is_active = False;
\* db.add(license_obj); db.commit()
ExpireLicenseSkipped(lics, c) == lics

ExpireLicense(lics, c) == [lics EXCEPT ![c].is_active = FALSE]

\* start_session_for_license from its first line to the PIN loop: the checks,
\* the lazy expiry, and the values of the Session object that do not depend on
\* the PIN
start_session_for_license(p) ==
    /\ pc[p] = "start_check"
    /\ LET l == loc[p]
           snap == l.licsnap
           elapsed == now - snap.activated_at
           default_ml == IF snap.max_listeners # 0 THEN snap.max_listeners ELSE 10
           max_listeners == IF l.ml_given /\ l.ml # 0 THEN l.ml ELSE default_ml
           remaining_minutes == Max(0, snap.duration_minutes - (elapsed \div TicksPerMinute))
           Return(kind) ==
               /\ pc' = [pc EXCEPT ![p] = "idle"]
               /\ loc' = [loc EXCEPT ![p] = Done([l EXCEPT !.result = kind])]
       IN IF ~snap.is_active \/ snap.activated_at = NoTime
          THEN Return("license_not_active") /\ UNCHANGED licenses
          ELSE IF elapsed >= snap.duration_minutes * TicksPerMinute
          THEN /\ licenses' = ExpireLicense(licenses, l.lic)
               /\ Return("license_expired")
          ELSE IF max_listeners \notin ALLOWED_MAX_LISTENERS
          THEN Return("invalid_max_listeners") /\ UNCHANGED licenses
          ELSE /\ UNCHANGED licenses
               /\ pc' = [pc EXCEPT ![p] = "start_pin"]
               /\ loc' = [loc EXCEPT
                      ![p].lic_dirty = TRUE,
                      ![p].tries = 0,
                      ![p].newsess =
                          [license_id |-> l.lic, pin |-> NoId, started_at |-> now,
                           expires_at |-> compute_expiry(now, remaining_minutes),
                           ended_at |-> NoTime, max_listeners |-> max_listeners,
                           is_active |-> TRUE]]
    /\ UNCHANGED <<now, sessions, listeners, events, kill_log, log_failures, consumed>>

\* "exists" of the PIN loop: the query for an active session with the
\* candidate as its pin
PinTakenNever(candidate) == FALSE

PinTaken(candidate) == candidate \in ActivePins

\* one iteration of "for _ in range(PIN_GENERATION_TRIES)": gen_pin draws a
\* candidate, which is taken unless an active session has it
start_pin(p) ==
    /\ pc[p] = "start_pin"
    /\ \E candidate \in PinSpace :
          LET l == loc[p]
          IN IF ~PinTaken(candidate)
             THEN /\ pc' = [pc EXCEPT ![p] = "start_commit"]
                  /\ loc' = [loc EXCEPT ![p].pin = candidate,
                                         ![p].newsess.pin = candidate]
             ELSE IF l.tries + 1 = PIN_GENERATION_TRIES
             THEN /\ pc' = [pc EXCEPT ![p] = "idle"]
                  /\ loc' = [loc EXCEPT ![p] =
                                Done([l EXCEPT !.result = "pin_generation_failed"])]
             ELSE /\ pc' = [pc EXCEPT ![p] = "start_pin"]
                  /\ loc' = [loc EXCEPT ![p].tries = l.tries + 1]
    /\ UNCHANGED <<now, licenses, sessions, listeners, events, kill_log, log_failures,
                   consumed>>

\* uq_sessions_pin, UNIQUE (pin) on table sessions: the INSERT of a row fails
\* when any session row, active or ended, already has the pin
uq_sessions_pin_absent(pin) == FALSE

uq_sessions_pin(pin) == \E s \in SessionIds : sessions[s].pin = pin

\* "except IntegrityError: db.rollback(); return None, 'db_error'": what the
\* call leaves behind when its commit fails
IntegrityErrorEscapes(l) == Done([l EXCEPT !.result = "raised"])

IntegrityErrorCaught(l) == Done([l EXCEPT !.result = "db_error"])

\* db.add(session); db.commit() of start_session_for_license: the UPDATE of the
\* license and the INSERT of the session in one transaction
start_commit(p) ==
    /\ pc[p] = "start_commit"
    /\ pc' = [pc EXCEPT ![p] = "idle"]
    /\ LET l == loc[p]
       IN IF uq_sessions_pin(l.newsess.pin)
          THEN /\ loc' = [loc EXCEPT ![p] = IntegrityErrorCaught(l)]
               /\ UNCHANGED <<licenses, sessions, consumed>>
          ELSE /\ licenses' = ConsumeLicense(licenses, l.lic)
               /\ sessions' = Append(sessions, l.newsess)
               /\ consumed' = consumed \cup {l.lic}
               /\ loc' = [loc EXCEPT ![p] =
                             Done([l EXCEPT !.result = "ok", !.sid = Len(sessions) + 1])]
    /\ UNCHANGED <<now, listeners, events, kill_log, log_failures>>

------------------------------------------------------------------------------
\* Listener Admission

\* the number join_session_by_pin compares with max_listeners:
\* db.query(Listener).filter(Listener.session_id == session.id).count()
listeners_count(sid) == Cardinality(ListenersOf(sid))

\* join_session_by_pin up to the capacity check
join_session_by_pin(p, pin) ==
    /\ Idle(p)
    /\ LET found == {s \in SessionIds : sessions[s].pin = pin /\ sessions[s].is_active}
           base == [IdleLoc EXCEPT !.op = "join", !.pin = pin]
       IN IF found = {}
          THEN /\ loc' = [loc EXCEPT ![p] = [base EXCEPT !.result = "session_not_found"]]
               /\ UNCHANGED <<sessions, pc>>
          ELSE LET s == CHOOSE t \in found : \A u \in found : t <= u
               IN IF sessions[s].expires_at <= now
                  THEN /\ sessions' = [sessions EXCEPT ![s].is_active = FALSE]
                       /\ loc' = [loc EXCEPT ![p] =
                                     [base EXCEPT !.result = "session_expired", !.sid = s]]
                       /\ UNCHANGED pc
                  ELSE IF listeners_count(s) >= sessions[s].max_listeners
                  THEN /\ loc' = [loc EXCEPT ![p] =
                                     [base EXCEPT !.result = "session_full", !.sid = s]]
                       /\ UNCHANGED <<sessions, pc>>
                  ELSE /\ loc' = [loc EXCEPT ![p] =
                                     [base EXCEPT !.result = "pending", !.sid = s]]
                       /\ pc' = [pc EXCEPT ![p] = "join_insert"]
                       /\ UNCHANGED sessions
    /\ UNCHANGED <<now, licenses, listeners, events, kill_log, log_failures, consumed>>

\* db.add(listener); db.commit() of join_session_by_pin
join_insert(p) ==
    /\ pc[p] = "join_insert"
    /\ listeners' = Append(listeners,
           [session_id |-> loc[p].sid, is_connected |-> TRUE, left_at |-> NoTime])
    /\ pc' = [pc EXCEPT ![p] = "idle"]
    /\ loc' = [loc EXCEPT ![p] = Done([loc[p] EXCEPT !.result = "ok"])]
    /\ UNCHANGED <<now, licenses, sessions, events, kill_log, log_failures, consumed>>

\* Listener.disconnect() on a persisted listener (leave)
disconnect(l) ==
    /\ l \in ListenerIds
    /\ listeners[l].is_connected
    /\ listeners' = [listeners EXCEPT ![l].is_connected = FALSE, ![l].left_at = now]
    /\ UNCHANGED <<now, licenses, sessions, events, kill_log, log_failures, consumed, pc, loc>>

\* the passage of time
Tick ==
    /\ now < MaxNow
    /\ now' = now + 1
    /\ UNCHANGED <<licenses, sessions, listeners, events, kill_log, log_failures,
                   consumed, pc, loc>>

------------------------------------------------------------------------------
\* Session Termination Engine

\* the rows as they are after the SQLAlchemy session of a handler has flushed
\* its pending changes: only the attributes that were changed are written
FlushedSessions(l) ==
    IF l.sid = NoId \/ ~(l.set_inactive \/ l.set_ended) THEN sessions
    ELSE [sessions EXCEPT
             ![l.sid].is_active = IF l.set_inactive THEN FALSE ELSE @,
             ![l.sid].ended_at = IF l.set_ended THEN l.ended_val ELSE @]

FlushedListeners(l) ==
    [i \in DOMAIN listeners |->
        IF \E d \in l.ldirty : d[1] = i
        THEN [listeners[i] EXCEPT
                 !.is_connected = FALSE,
                 !.left_at = (CHOOSE d \in l.ldirty : d[1] = i)[2]]
        ELSE listeners[i]]

\* the private state after db.commit() or db.rollback(): nothing is pending
\* and every loaded attribute is expired
Expire(l) ==
    [l EXCEPT !.set_inactive = FALSE, !.set_ended = FALSE, !.ldirty = {}, !.expired = TRUE]

\* log_event(db, ...): db.add(ev); db.commit(), and db.rollback() when that fails.
\* The commit flushes everything pending in the caller's session, the rollback
\* discards it.
log_event_commit(l, type) ==
    /\ sessions' = FlushedSessions(l)
    /\ listeners' = FlushedListeners(l)
    /\ events' = events (+) SetToBag({[type |-> type, session_id |-> l.sid]})
    /\ UNCHANGED log_failures

log_event_rollback ==
    /\ log_failures < MaxLogFailures
    /\ log_failures' = log_failures + 1
    /\ UNCHANGED <<sessions, listeners, events>>

\* _safe_log_event(event_logger, ...) called with private state l: what the
\* logger does to the database
safe_log_event(l, type) ==
    IF l.logger = "log_event"
    THEN log_event_commit(l, type) \/ log_event_rollback
    ELSE UNCHANGED <<sessions, listeners, events, log_failures>>

\* the private state _safe_log_event leaves: log_event has committed or
\* rolled back the caller's session
AfterLog(l) == IF l.logger = "log_event" THEN Expire(l) ELSE l

\* "if not session.is_active and session.ended_at is not None": the session
\* is already closed
AlreadyEndedNever(srow) == FALSE

AlreadyEnded(srow) == ~srow.is_active /\ srow.ended_at # NoTime

\* the first statements of end_session_logic on a session row srow as this
\* handler sees it: branch on "already ended", mark the session and load
\* session.listeners
EnterSession(l, srow) ==
    LET lst == SetToSeq(ListenersOf(l.sid))
        late == AlreadyEnded(srow)
    IN [l EXCEPT
           !.result = "pending",
           !.ssnap = [is_active |-> srow.is_active, ended_at |-> srow.ended_at],
           !.was_active = srow.is_active,
           !.late = late,
           !.set_inactive = ~late /\ srow.is_active,
           !.set_ended = ~late /\ srow.ended_at # now,
           !.ended_val = now,
           !.lst = lst,
           !.lsnap = [i \in DOMAIN lst |-> listeners[lst[i]].is_connected],
           !.idx = 1, !.ldirty = {}, !.modified = FALSE,
           !.ended_emitted = FALSE, !.left_emitted = 0]

AfterEnter(l) == IF l.lst = <<>> THEN "end_finish" ELSE "end_listeners"

\* end_session_logic(db, session_id, reason, event_logger, kill_switch): the
\* query of the session and the entry into one of the two branches
end_session_logic(p, sid, reason, logger, ks) ==
    /\ Idle(p)
    /\ LET base == [IdleLoc EXCEPT !.op = "end", !.sid = sid, !.reason = reason,
                                   !.logger = logger, !.ks = ks]
       IN IF sid \notin SessionIds
          THEN /\ loc' = [loc EXCEPT ![p] = [base EXCEPT !.result = "none"]]
               /\ UNCHANGED pc
          ELSE LET l == EnterSession(base, sessions[sid])
               IN /\ loc' = [loc EXCEPT ![p] = l]
                  /\ pc' = [pc EXCEPT ![p] = AfterEnter(l)]
    /\ UNCHANGED <<now, licenses, sessions, listeners, events, kill_log, log_failures, consumed>>

\* listener.is_connected as _disconnect_listener reads it: the loaded value,
\* or the persisted one once a commit or rollback has expired the object
ListenerConnectedAlways(l, lid) == TRUE

ListenerConnected(l, lid) ==
    IF l.expired THEN listeners[lid].is_connected ELSE l.lsnap[l.idx]

\* one iteration of "for listener in session.listeners": _disconnect_listener
\* and the listener_left event
end_listener(p) ==
    /\ pc[p] = "end_listeners"
    /\ LET l == loc[p]
           lid == l.lst[l.idx]
           conn == ListenerConnected(l, lid)
           nextpc == IF l.idx = Len(l.lst) THEN "end_finish" ELSE "end_listeners"
           Step(x) == [x EXCEPT !.idx = @ + 1]
       IN IF ~conn
          THEN /\ loc' = [loc EXCEPT ![p] = Step(l)]
               /\ pc' = [pc EXCEPT ![p] = nextpc]
               /\ UNCHANGED <<sessions, listeners, events, log_failures>>
          ELSE LET l2 == [l EXCEPT !.ldirty = @ \cup {<<lid, now>>}, !.modified = TRUE,
                                   !.left_emitted = IF l.logger = "none" THEN @ ELSE @ + 1]
               IN /\ safe_log_event(l2, "listener_left")
                  /\ loc' = [loc EXCEPT ![p] = Step(AfterLog(l2))]
                  /\ pc' = [pc EXCEPT ![p] = nextpc]
    /\ UNCHANGED <<now, licenses, kill_log, consumed>>

\* what follows the termination of one session: the caller gets the session
\* back; close_all_expired_sessions counts it and goes on with the next one
Return(l) ==
    IF l.op = "sweep"
    THEN IF Len(l.cands) > 1
         THEN [l EXCEPT !.closed = @ + 1, !.cands = Tail(@), !.sid = l.cands[2]]
         ELSE Done([l EXCEPT !.closed = @ + 1, !.result = "ok"])
    ELSE Done([l EXCEPT !.result = "ok"])

ReturnPc(l) ==
    IF l.op = "sweep" /\ Len(l.cands) > 1 THEN "end_load" ELSE "idle"

AfterCommit(l) == IF l.ks THEN "end_kill" ELSE ReturnPc(l)
Committed(l) == IF l.ks THEN Expire(l) ELSE Return(Expire(l))

\* the end of both branches: the session_ended event and the authoritative
\* db.commit() of the normal path, the conditional commit of the late-sync path
end_finish(p) ==
    /\ pc[p] = "end_finish"
    /\ LET l == loc[p]
       IN IF l.late
          THEN /\ IF l.modified
                  THEN /\ sessions' = FlushedSessions(l)
                       /\ listeners' = FlushedListeners(l)
                       /\ loc' = [loc EXCEPT ![p] = Committed(l)]
                  ELSE /\ UNCHANGED <<sessions, listeners>>
                       /\ loc' = [loc EXCEPT ![p] = IF l.ks THEN l ELSE Return(l)]
               /\ pc' = [pc EXCEPT ![p] = AfterCommit(l)]
               /\ UNCHANGED <<events, log_failures>>
          ELSE IF l.logger = "log_event"
          THEN LET l2 == [l EXCEPT !.ended_emitted = TRUE]
               IN /\ safe_log_event(l2, "session_ended")
                  /\ loc' = [loc EXCEPT ![p] = Committed(AfterLog(l2))]
                  /\ pc' = [pc EXCEPT ![p] = AfterCommit(l)]
          ELSE /\ sessions' = FlushedSessions(l)
               /\ listeners' = FlushedListeners(l)
               /\ loc' = [loc EXCEPT ![p] =
                             Committed([l EXCEPT !.ended_emitted = (l.logger # "none")])]
               /\ pc' = [pc EXCEPT ![p] = AfterCommit(l)]
               /\ UNCHANGED <<events, log_failures>>
    /\ UNCHANGED <<now, licenses, kill_log, consumed>>

\* the events _run_kill_switch_best_effort logs around one call of the
\* callback: KILL_SWITCH_START before it, then KILL_SWITCH_SUCCESS, or
\* KILL_SWITCH_FAIL when the callback raised; log_event drops the event whose
\* insert fails
KillSwitchEvents(sid, raised, start_lost, outcome_lost) ==
    (IF start_lost THEN EmptyBag
     ELSE SetToBag({[type |-> "KILL_SWITCH_START", session_id |-> sid]}))
    (+)
    (IF outcome_lost THEN EmptyBag
     ELSE SetToBag({[type |-> IF raised THEN "KILL_SWITCH_FAIL" ELSE "KILL_SWITCH_SUCCESS",
                     session_id |-> sid]}))

\* "except Exception as e" of _run_kill_switch_best_effort: the exception of
\* the callback ends there and the caller goes on to its return
KillSwitchEscapes(l, raised) ==
    IF raised THEN Done([l EXCEPT !.result = "raised"]) ELSE Return(l)

KillSwitchCaught(l, raised) == Return(l)

\* _run_kill_switch_best_effort: KILL_SWITCH_START, the callback, then
\* KILL_SWITCH_SUCCESS or KILL_SWITCH_FAIL; an exception of the callback is
\* caught
end_kill(p) ==
    /\ pc[p] = "end_kill"
    /\ LET l == loc[p]
       IN /\ \E raised \in BOOLEAN : \E start_lost \in BOOLEAN : \E outcome_lost \in BOOLEAN :
                LET lost == (IF start_lost THEN 1 ELSE 0) + (IF outcome_lost THEN 1 ELSE 0)
                IN /\ (l.logger # "log_event") => lost = 0
                   /\ log_failures + lost <= MaxLogFailures
                   /\ log_failures' = log_failures + lost
                   /\ kill_log' = kill_log \cup
                          {[session_id |-> l.sid, reason |-> l.reason, late |-> l.late]}
                   /\ events' = IF l.logger = "log_event"
                                THEN events (+) KillSwitchEvents(l.sid, raised,
                                                                 start_lost, outcome_lost)
                                ELSE events
                   /\ loc' = [loc EXCEPT ![p] = KillSwitchCaught(l, raised)]
          /\ pc' = [pc EXCEPT ![p] = ReturnPc(l)]
    /\ UNCHANGED <<now, licenses, sessions, listeners, consumed>>

------------------------------------------------------------------------------
\* Expiry Sweeper

\* the candidates of one tick: active sessions with expires_at <= now
Candidates == {s \in SessionIds : sessions[s].is_active /\ sessions[s].expires_at <= now}

\* close_all_expired_sessions(db, now, event_logger, kill_switch): the query
\* of the candidates
close_all_expired_sessions(p, logger, ks) ==
    /\ Idle(p)
    /\ LET cands == SetToSeq(Candidates)
           base == [IdleLoc EXCEPT !.op = "sweep", !.reason = "auto", !.logger = logger,
                                   !.ks = ks, !.cands = cands,
                                   !.swept = Candidates,
                                   !.csnap = [i \in DOMAIN cands |->
                                                 [is_active |-> sessions[cands[i]].is_active,
                                                  ended_at |-> sessions[cands[i]].ended_at]]]
       IN IF cands = <<>>
          THEN /\ loc' = [loc EXCEPT ![p] = [base EXCEPT !.result = "ok"]]
               /\ UNCHANGED pc
          ELSE /\ loc' = [loc EXCEPT ![p] = [base EXCEPT !.result = "pending",
                                                         !.sid = cands[1]]]
               /\ pc' = [pc EXCEPT ![p] = "end_load"]
    /\ UNCHANGED <<now, licenses, sessions, listeners, events, kill_log, log_failures, consumed>>

\* end_session_logic called by the sweeper for the next candidate: the rows
\* of the candidates query are still in the identity map of the sweeper's
\* session until a commit or rollback expires them
sweep_end_session(p) ==
    /\ pc[p] = "end_load"
    /\ LET l0 == loc[p]
           k == Len(l0.csnap) - Len(l0.cands) + 1
           srow == IF l0.expired THEN sessions[l0.sid] ELSE l0.csnap[k]
           l == EnterSession(l0, srow)
       IN /\ loc' = [loc EXCEPT ![p] = l]
          /\ pc' = [pc EXCEPT ![p] = AfterEnter(l)]
    /\ UNCHANGED <<now, licenses, sessions, listeners, events, kill_log, log_failures, consumed>>

------------------------------------------------------------------------------
\* Specification of the License Ledger and of start_session, used
\* sequentially: one request at a time, each running to its end

IdleProcs ==
    /\ pc = [p \in Procs |-> "idle"]
    /\ loc = [p \in Procs |-> IdleLoc]

\* no outbox row and no delivery scheduled
OutboxIdle ==
    /\ outbox = <<>>
    /\ tasks = <<>>
    /\ endpoint = "flaky"
    /\ webhook_url = TRUE
    /\ enq = NoCall
    /\ hook = NoHook
    /\ sched = SchedulerOff
    /\ post = NoPost

InitLedger ==
    /\ now = 0
    /\ licenses = [c \in LicenseCodes |-> LicenseRow(c)]
    /\ sessions = <<>>
    /\ listeners = <<>>
    /\ events = EmptyBag
    /\ kill_log = {}
    /\ log_failures = 0
    /\ consumed = {}
    /\ IdleProcs
    /\ OutboxIdle

\* the values a caller passes as requested_max_listeners: None, 25 and 7
Requested == {<<FALSE, 0>>, <<TRUE, 25>>, <<TRUE, 7>>}

\* the values passed in the sequential specification: None and 7
RequestedDefault == {<<FALSE, 0>>, <<TRUE, 7>>}

LedgerActivate ==
    /\ AllIdle /\ \E c \in LicenseCodes : activate_license("r1", c)
    /\ UNCHANGED outbox_vars
LedgerRevoke ==
    /\ AllIdle /\ \E c \in LicenseCodes : admin_revoke("r1", c)
    /\ UNCHANGED outbox_vars
LedgerReactivate ==
    /\ AllIdle /\ \E c \in LicenseCodes : admin_reactivate("r1", c)
    /\ UNCHANGED outbox_vars
LedgerStartLoad ==
    /\ AllIdle
    /\ Len(sessions) < MaxSessions
    /\ \E c \in LicenseCodes : \E r \in RequestedDefault :
           get_license_by_code("r1", c, r[1], r[2])
    /\ UNCHANGED outbox_vars
LedgerStartCheck ==
    /\ start_session_for_license("r1")
    /\ UNCHANGED outbox_vars
LedgerStartPin ==
    /\ start_pin("r1")
    /\ UNCHANGED outbox_vars
LedgerStartCommit ==
    /\ start_commit("r1")
    /\ UNCHANGED outbox_vars
LedgerTick ==
    /\ AllIdle /\ Tick
    /\ UNCHANGED outbox_vars

NextLedger ==
    \/ LedgerActivate \/ LedgerRevoke \/ LedgerReactivate
    \/ LedgerStartLoad \/ LedgerStartCheck \/ LedgerStartPin \/ LedgerStartCommit
    \/ LedgerTick

vars == <<lifecycle_vars, outbox_vars>>

SpecLedger == InitLedger /\ [][NextLedger]_vars

------------------------------------------------------------------------------
\* Specification of the Termination Engine, the Expiry Sweeper and Listener
\* Admission, used sequentially.  It starts where license 1 was activated at
\* time 0 and started a session at once, then was reactivated by the admin and
\* started a second session half a minute later.

StartedSession(c, pin, at, exp) ==
    [license_id |-> c, pin |-> pin, started_at |-> at, expires_at |-> exp,
     ended_at |-> NoTime, max_listeners |-> DefaultMaxListeners, is_active |-> TRUE]

InitEngine ==
    /\ now = 1
    /\ licenses = [c \in LicenseCodes |->
                      IF c = 1 THEN [LicenseRow(c) EXCEPT !.activated_at = 0]
                      ELSE LicenseRow(c)]
    /\ sessions = <<StartedSession(1, 1, 0, 2), StartedSession(1, 2, 1, 3)>>
    /\ listeners = <<>>
    /\ events = EmptyBag
    /\ kill_log = {}
    /\ log_failures = 0
    /\ consumed = {1}
    /\ IdleProcs
    /\ OutboxIdle

\* end_session(db, session_id): end_session_logic with reason "manual" and
\* neither an event logger nor a kill switch
end_session(p, sid) == end_session_logic(p, sid, "manual", "none", FALSE)

\* one tick of _auto_close_loop: close_all_expired_sessions(db, event_logger=log_event)
auto_close_tick(p) == close_all_expired_sessions(p, "log_event", FALSE)

KillEvents(sid) == CopiesIn([type |-> "KILL_SWITCH_START", session_id |-> sid], events)

EngJoin ==
    /\ AllIdle
    /\ Len(listeners) < MaxListenerRows
    /\ \E pin \in PinSpace : join_session_by_pin("r1", pin)
    /\ UNCHANGED outbox_vars
EngJoinInsert ==
    /\ join_insert("r1")
    /\ UNCHANGED outbox_vars
EngLeave ==
    /\ AllIdle /\ \E l \in ListenerIds : disconnect(l)
    /\ UNCHANGED outbox_vars
EngEndSession ==
    /\ AllIdle /\ \E sid \in 1..(Len(sessions) + 1) : end_session("r1", sid)
    /\ UNCHANGED outbox_vars
EngEndListener ==
    /\ \E p \in Procs : end_listener(p)
    /\ UNCHANGED outbox_vars
EngEndFinish ==
    /\ \E p \in Procs : end_finish(p)
    /\ UNCHANGED outbox_vars
EngSweep ==
    /\ AllIdle /\ auto_close_tick("sw")
    /\ UNCHANGED outbox_vars
EngSweepNext ==
    /\ sweep_end_session("sw")
    /\ UNCHANGED outbox_vars
EngTick ==
    /\ AllIdle /\ Tick
    /\ UNCHANGED outbox_vars

NextEngine ==
    \/ EngJoin \/ EngJoinInsert \/ EngLeave
    \/ EngEndSession \/ EngEndListener \/ EngEndFinish
    \/ EngSweep \/ EngSweepNext
    \/ EngTick

SpecEngine == InitEngine /\ [][NextEngine]_vars

------------------------------------------------------------------------------
\* Specification of end_session_logic called directly, with every kind of
\* event logger (none, a callable that does not touch the database,
\* app.core.utils.log_event) and with or without a kill switch, on the
\* session of one license activated and started at time 0

InitKill ==
    /\ now = 1
    /\ licenses = [c \in LicenseCodes |->
                      IF c = 1 THEN [LicenseRow(c) EXCEPT !.activated_at = 0]
                      ELSE LicenseRow(c)]
    /\ sessions = <<StartedSession(1, 1, 0, 2)>>
    /\ listeners = <<>>
    /\ events = EmptyBag
    /\ kill_log = {}
    /\ log_failures = 0
    /\ consumed = {1}
    /\ IdleProcs
    /\ OutboxIdle

KillEndLogic ==
    /\ AllIdle
    /\ \E sid \in SessionIds : \E logger \in {"none", "callable", "log_event"} :
       \E ks \in BOOLEAN : \E reason \in {"manual", "auto"} :
          /\ (ks /\ logger = "log_event") => KillEvents(sid) < MaxKillEvents
          /\ end_session_logic("r1", sid, reason, logger, ks)
    /\ UNCHANGED outbox_vars
KillJoin ==
    /\ AllIdle
    /\ Len(listeners) < MaxListenerRows
    /\ \E pin \in PinSpace : join_session_by_pin("r1", pin)
    /\ UNCHANGED outbox_vars
KillJoinInsert ==
    /\ join_insert("r1")
    /\ UNCHANGED outbox_vars
KillEndListener ==
    /\ end_listener("r1")
    /\ UNCHANGED outbox_vars
KillEndFinish ==
    /\ end_finish("r1")
    /\ UNCHANGED outbox_vars
KillEndKill ==
    /\ end_kill("r1")
    /\ UNCHANGED outbox_vars
KillTick ==
    /\ AllIdle /\ Tick
    /\ UNCHANGED outbox_vars

NextKill ==
    \/ KillEndLogic \/ KillJoin \/ KillJoinInsert
    \/ KillEndListener \/ KillEndFinish \/ KillEndKill
    \/ KillTick

SpecKill == InitKill /\ [][NextKill]_vars

------------------------------------------------------------------------------
\* Properties of the Session Registry and the License Ledger

\* C1: end_session returns the session (true) exactly when a session with the
\* given id exists, so a second call on the same session returns true as the
\* first did; and no step changes an ended_at that has been written, so the
\* second call leaves ended_at at the value the first call wrote.
C1_EndSessionIdempotent ==
    /\ [](\A p \in Procs :
            (Idle(p) /\ loc[p].op = "end") =>
                /\ loc[p].result \in {"ok", "none"}
                /\ (loc[p].result = "ok") <=> (loc[p].sid \in SessionIds))
    /\ [][\A s \in SessionIds :
            sessions[s].ended_at # NoTime =>
                sessions'[s].ended_at = sessions[s].ended_at]_vars

\* a second end_session has returned true for a session that only an earlier
\* end_session can have ended (it has not expired and no sweep has run), at a
\* later time than the one written in ended_at
C1_Witness ==
    \E p \in Procs :
        /\ Idle(p) /\ loc[p].op = "end" /\ loc[p].late /\ loc[p].result = "ok"
        /\ loc["sw"].op = "none"
        /\ sessions[loc[p].sid].expires_at > now
        /\ sessions[loc[p].sid].ended_at # NoTime
        /\ sessions[loc[p].sid].ended_at < now

\* C2: once a start has returned a session for a license and no
\* admin_reactivate has followed, a later start on that license returns
\* license_not_active and creates no session row.
C2_SecondStartRefused ==
    \A p \in Procs :
        (Idle(p) /\ loc[p].op = "start" /\ loc[p].after_ok) =>
            /\ loc[p].result = "license_not_active"
            /\ Len(sessions) = loc[p].pre_nsess

\* a start on a consumed license has returned
C2_Witness ==
    \E p \in Procs :
        /\ Idle(p) /\ loc[p].op = "start" /\ loc[p].after_ok
        /\ loc[p].result = "license_not_active"
        /\ \E s \in SessionIds : sessions[s].license_id = loc[p].lic

------------------------------------------------------------------------------
\* Specification of start_session under concurrent requests: the route
\* handlers run in the thread pool, each with its own database session, so the
\* load of the license, the checks and the commit of two requests interleave.
\* No admin_reactivate happens.

Requesters == {"r1", "r2"}

RaceActivate ==
    /\ AllIdle /\ \E c \in LicenseCodes : activate_license("r1", c)
    /\ UNCHANGED outbox_vars
RaceStartLoad ==
    /\ Len(sessions) + StartsInFlight < MaxSessions
    /\ \E p \in Requesters : \E c \in LicenseCodes : \E r \in Requested :
           get_license_by_code(p, c, r[1], r[2])
    /\ UNCHANGED outbox_vars
RaceStartCheck ==
    /\ \E p \in Requesters : start_session_for_license(p)
    /\ UNCHANGED outbox_vars
RaceStartPin ==
    /\ \E p \in Requesters : start_pin(p)
    /\ UNCHANGED outbox_vars
RaceStartCommit ==
    /\ \E p \in Requesters : start_commit(p)
    /\ UNCHANGED outbox_vars
RaceTick ==
    /\ Tick
    /\ UNCHANGED outbox_vars

NextStartRace ==
    \/ RaceActivate \/ RaceStartLoad \/ RaceStartCheck \/ RaceStartPin
    \/ RaceStartCommit \/ RaceTick

SpecStartRace == InitLedger /\ [][NextStartRace]_vars

\* C3: when starts for one license interleave, at most one of them returns a
\* session and at most one session row of the license is persisted.
C3_OneSessionPerLicense ==
    \A c \in LicenseCodes :
        /\ Cardinality({s \in SessionIds : sessions[s].license_id = c}) <= 1
        /\ Cardinality({p \in Procs : /\ Idle(p) /\ loc[p].op = "start"
                                      /\ loc[p].lic = c /\ loc[p].result = "ok"}) <= 1

------------------------------------------------------------------------------
\* Specification of Listener Admission for one session of capacity
\* max_listeners, started at time 0 on license 1 and not expired: joins one
\* at a time, and listeners that leave

InitJoin ==
    /\ now = 0
    /\ licenses = [c \in LicenseCodes |->
                      IF c = 1 THEN [LicenseRow(c) EXCEPT !.activated_at = 0]
                      ELSE LicenseRow(c)]
    /\ sessions = <<StartedSession(1, 1, 0, 2)>>
    /\ listeners = <<>>
    /\ events = EmptyBag
    /\ kill_log = {}
    /\ log_failures = 0
    /\ consumed = {1}
    /\ IdleProcs
    /\ OutboxIdle

CapJoin ==
    /\ AllIdle /\ \E pin \in PinSpace : join_session_by_pin("r1", pin)
    /\ UNCHANGED outbox_vars
CapJoinInsert ==
    /\ join_insert("r1")
    /\ UNCHANGED outbox_vars
CapLeave ==
    /\ AllIdle /\ \E l \in ListenerIds : disconnect(l)
    /\ UNCHANGED outbox_vars

NextJoinCap == CapJoin \/ CapJoinInsert \/ CapLeave

SpecJoinCap == InitJoin /\ [][NextJoinCap]_vars

\* the step in which handler p runs join_session_by_pin up to its capacity
\* check on a session it found active and not expired
JoinChecks(p) ==
    /\ Idle(p)
    /\ loc'[p] # loc[p]
    /\ loc'[p].op = "join"
    /\ loc'[p].sid # NoId
    /\ loc'[p].result # "session_expired"

\* C4: a join fails with session_full when the connected listeners of the
\* session equal max_listeners and is admitted when they are fewer, also after
\* admitted listeners have disconnected.
C4_JoinCapacity ==
    [][\A p \in Procs :
          JoinChecks(p) =>
              LET s == loc'[p].sid
              IN /\ active_listeners(s) >= sessions[s].max_listeners
                        => loc'[p].result = "session_full"
                 /\ active_listeners(s) < sessions[s].max_listeners
                        => pc'[p] = "join_insert"]_vars

------------------------------------------------------------------------------
\* Specification of Listener Admission under concurrent joins: the count and
\* the insert of two requests interleave

RaceJoin ==
    /\ \E p \in Requesters : \E pin \in PinSpace : join_session_by_pin(p, pin)
    /\ UNCHANGED outbox_vars
RaceJoinInsert ==
    /\ \E p \in Requesters : join_insert(p)
    /\ UNCHANGED outbox_vars

NextJoinRace == RaceJoin \/ RaceJoinInsert

SpecJoinRace == InitJoin /\ [][NextJoinRace]_vars

\* C5: the listeners admitted to a session never exceed its max_listeners,
\* whatever the interleaving of the joins.
C5_NeverOverCapacity ==
    \A s \in SessionIds : active_listeners(s) <= sessions[s].max_listeners

------------------------------------------------------------------------------
\* Properties of the Termination Engine and the Expiry Sweeper

\* the session row as persisted shows the completed transition
PersistedEnded(s) == ~sessions[s].is_active /\ sessions[s].ended_at # NoTime

\* C6: after one run of close_all_expired_sessions, every session that was
\* active and expired when the run selected its candidates is inactive with
\* ended_at set, and all its listeners are disconnected.
C6_SweepClosesExpired ==
    \A p \in Procs :
        (Idle(p) /\ loc[p].op = "sweep") =>
            \A s \in loc[p].swept :
                /\ PersistedEnded(s)
                /\ \A i \in ListenersOf(s) : ~listeners[i].is_connected

\* C7: whenever end_session_logic has returned for a session it found
\* active, the session is persisted with is_active = false and ended_at set,
\* whatever the event logger is and whether or not it failed.
C7_LoggerNeverBlocksTransition ==
    \A p \in Procs :
        (Idle(p) /\ loc[p].op = "end" /\ loc[p].result = "ok" /\ loc[p].was_active) =>
            PersistedEnded(loc[p].sid)

\* C8: in a normal-path run of end_session_logic the session_ended event is
\* emitted only when every listener of the session has been handled, and the
\* kill switch is reached only when the commit has persisted is_active = false
\* and ended_at.
C8_EventsThenCommitThenKill ==
    \A p \in Procs :
        /\ (loc[p].ended_emitted /\ ~loc[p].late) => loc[p].idx > Len(loc[p].lst)
        /\ (pc[p] = "end_kill" /\ ~loc[p].late) => PersistedEnded(loc[p].sid)

------------------------------------------------------------------------------
\* Outbox: queue_event, retry_failed_events and _deliver_event.  A row has the
\* columns of table event_logs that _deliver_event reads and writes (status
\* and retries); every row is inserted by queue_event, so its payload has
\* passed validate_event_payload.

Min(a, b) == IF a <= b THEN a ELSE b

\* a descending sequence of the elements of a finite set of integers
RECURSIVE SetToSeqDesc(_)
SetToSeqDesc(S) ==
    IF S = {} THEN <<>>
    ELSE LET m == CHOOSE x \in S : \A y \in S : x >= y
         IN <<m>> \o SetToSeqDesc(S \ {m})

EventIds == DOMAIN outbox

\* EventLog(event_type, payload, status=queued) as queue_event inserts it;
\* valid is whether the payload validates against the schema of its type
NewEventLog ==
    [status |-> "queued", retries |-> 0, last_error |-> "none", delivered_at |-> NoTime,
     valid |-> TRUE]

\* a scheduled execution of _deliver_event(db, ev) that has not started; same
\* is whether db is the database session of the delivery scheduled before it
NewTask(ev, same) ==
    [pc |-> "select", ev |-> ev, same |-> same, status |-> "queued", retries |-> 0,
     last_error |-> "none", expired |-> FALSE]

\* background_tasks.add_task(_deliver_event, db, id) for every id of ids, all
\* with the database session of the caller, after the deliveries scheduled
\* before
Scheduled(ids) == tasks \o [k \in 1..Len(ids) |-> NewTask(ids[k], k > 1)]

\* whether the deliveries i and j were given the same database session
SameDb(i, j) == \A k \in (Min(i, j) + 1)..Max(i, j) : tasks[k].same

\* validate_event_payload(payload) for a payload whose "type" is event_type:
\* the type has a schema, and every field of the schema is there with a value
\* the schema accepts
validate_event_payload_any(event_type, payload) == TRUE

validate_event_payload(event_type, payload) ==
    /\ event_type \in DOMAIN EVENT_SCHEMAS
    /\ \A f \in EVENT_SCHEMAS[event_type] : payload[f] = "valid"

\* queue_event(db, background_tasks, event_type, payload): an empty
\* event_type or a payload that does not validate raises ValueError before
\* anything is written; otherwise the row is inserted with status queued, its
\* delivery is scheduled and the row is returned
queue_event(event_type, payload) ==
    LET call == [NoCall EXCEPT !.event_type = event_type, !.payload = payload]
    IN /\ IF event_type = "" \/ ~validate_event_payload(event_type, payload)
          THEN /\ enq' = [call EXCEPT !.raised = "ValueError"]
               /\ UNCHANGED <<outbox, tasks>>
          ELSE /\ Len(outbox) < MaxEvents
               /\ Len(tasks) < MaxTasks
               /\ outbox' = Append(outbox, NewEventLog)
               /\ tasks' = Scheduled(<<Len(outbox) + 1>>)
               /\ enq' = [call EXCEPT !.returned = Len(outbox) + 1]
       /\ UNCHANGED <<endpoint, webhook_url, hook, sched, post>>

\* select(EventLog.id).where(EventLog.status == EventStatus.failed)
FailedEventsNone == {}

FailedEvents == {e \in EventIds : outbox[e].status = "failed"}

\* retry_failed_events(db, background_tasks, limit): the failed rows, most
\* recent first, at most limit of them, each scheduled on the caller's session
RetryBatchUnlimited(limit) == SetToSeqDesc(FailedEvents)

RetryBatch(limit) ==
    LET failed == SetToSeqDesc(FailedEvents)
    IN SubSeq(failed, 1, Min(limit, Len(failed)))

retry_failed_events(limit) ==
    LET ids == RetryBatch(limit)
    IN /\ ids # <<>>
       /\ Len(tasks) + Len(ids) <= MaxTasks
       /\ tasks' = Scheduled(ids)
       /\ UNCHANGED <<outbox, endpoint, webhook_url, enq, hook, sched, post>>

\* POST /api/admin/events/retry-failed?limit=...: retry_failed_events on the
\* session of the request; the response carries the scheduled ids and the limit.
\* The deliveries of one request run in the order scheduled, those of several
\* requests and of _retry_loop interleave: Scheduled(ids) allows both.
retry_failed(limit) ==
    LET ids == RetryBatch(limit)
    IN /\ Len(tasks) + Len(ids) <= MaxTasks
       /\ tasks' = Scheduled(ids)
       /\ enq' = [NoCall EXCEPT !.event_type = "retry_failed", !.limit = limit,
                                !.scheduled_ids = ids]
       /\ UNCHANGED <<outbox, endpoint, webhook_url, hook, sched, post>>

\* db.commit() in the session of delivery t: the objects the other deliveries
\* loaded through the same session are expired, and delivery t is over
CommitAndFinish(t) ==
    LET expired == [i \in DOMAIN tasks |->
                       IF i # t /\ SameDb(i, t) /\ tasks[i].pc = "post"
                       THEN [tasks[i] EXCEPT !.expired = TRUE]
                       ELSE tasks[i]]
    IN [i \in 1..(Len(tasks) - 1) |->
           IF i < t THEN expired[i]
           ELSE IF i = t THEN [expired[i + 1] EXCEPT !.same = @ /\ tasks[t].same]
           ELSE expired[i + 1]]

\* the UPDATE that the flush of the delivery's session emits for row: an
\* attribute is written when the assignment changes the value the session has
\* loaded, or when the attribute was expired and is assigned without being
\* loaded; retries is read (reloaded when expired), incremented and written
StatusWritten(task, status) == task.expired \/ task.status # status

LastErrorWritten(task, err) == task.expired \/ task.last_error # err

RetriesRead(task, row) == IF task.expired THEN row.retries ELSE task.retries

\* "ev.status = EventStatus.sent; ev.delivered_at = _utcnow(); ev.last_error =
\* None" and the commit
MarkSent(task, row) ==
    [row EXCEPT !.status = IF StatusWritten(task, "sent") THEN "sent" ELSE @,
                !.delivered_at = now,
                !.last_error = IF LastErrorWritten(task, "none") THEN "none" ELSE @]

\* "ev.status = EventStatus.failed; ev.retries = (ev.retries or 0) + 1;
\* ev.last_error = ..." and the commit
MarkFailed(task, row, err) ==
    [row EXCEPT !.status = IF StatusWritten(task, "failed") THEN "failed" ELSE @,
                !.retries = RetriesRead(task, row) + 1,
                !.last_error = IF LastErrorWritten(task, err) THEN err ELSE @]

\* the attributes of the row as the select of _deliver_event loads them
Loaded(task, row) ==
    [task EXCEPT !.status = row.status, !.retries = row.retries,
                 !.last_error = row.last_error, !.expired = FALSE]

\* validate_event_payload(payload_for_validation) of _deliver_event does not
\* raise
PayloadValidAlways(row) == TRUE

PayloadValid(row) == row.valid

\* _deliver_event up to "await post_webhook": the select of the row, the
\* no-op success when no webhook URL is configured, and the validation, which
\* marks a row with a malformed payload failed
deliver_event_select(t) ==
    /\ t \in DOMAIN tasks
    /\ tasks[t].pc = "select"
    /\ LET e == tasks[t].ev
           task == Loaded(tasks[t], outbox[e])
       IN IF ~webhook_url
          THEN /\ outbox' = [outbox EXCEPT ![e] = MarkSent(task, @)]
               /\ tasks' = CommitAndFinish(t)
          ELSE IF ~PayloadValid(outbox[e])
          THEN /\ outbox[e].retries < MaxRetries
               /\ outbox' = [outbox EXCEPT ![e] = MarkFailed(task, @, "validation_error")]
               /\ tasks' = CommitAndFinish(t)
          ELSE /\ tasks' = [tasks EXCEPT ![t] = [task EXCEPT !.pc = "post"]]
               /\ UNCHANGED outbox
    /\ UNCHANGED <<endpoint, webhook_url, enq, hook, sched, post>>

UpdatedRow(task, ok, row) ==
    IF ok THEN MarkSent(task, row) ELSE MarkFailed(task, row, "post_error")

\* _deliver_event from the return of "await post_webhook" on: ok is whether
\* one of the attempts of post_webhook got a 2xx status; the assignments and
\* db.commit()
deliver_event_commit(t, ok) ==
    /\ t \in DOMAIN tasks
    /\ tasks[t].pc = "post"
    /\ ~ok => /\ endpoint # "ok"
              /\ tasks[t].retries < MaxRetries
              /\ outbox[tasks[t].ev].retries < MaxRetries
    /\ outbox' = [outbox EXCEPT ![tasks[t].ev] = UpdatedRow(tasks[t], ok, @)]
    /\ tasks' = CommitAndFinish(t)
    /\ UNCHANGED <<endpoint, webhook_url, enq, hook, sched, post>>

\* from now on the endpoint answers every POST with a 2xx status
EndpointRecovers ==
    /\ endpoint = "flaky"
    /\ endpoint' = "ok"
    /\ UNCHANGED <<outbox, tasks, webhook_url, enq, hook, sched, post>>

InitOutbox ==
    /\ now = 0
    /\ licenses = [c \in LicenseCodes |-> LicenseRow(c)]
    /\ sessions = <<>>
    /\ listeners = <<>>
    /\ events = EmptyBag
    /\ kill_log = {}
    /\ log_failures = 0
    /\ consumed = {}
    /\ pc = [p \in Procs |-> "idle"]
    /\ loc = [p \in Procs |-> IdleLoc]
    /\ outbox = <<>>
    /\ tasks = <<>>
    /\ endpoint = "flaky"
    /\ webhook_url \in BOOLEAN
    /\ enq = NoCall
    /\ hook = NoHook
    /\ sched = SchedulerOff
    /\ post = NoPost

OutQueueEvent ==
    /\ queue_event("session_ended", PayloadOver(EVENT_SCHEMAS["session_ended"], "none"))
    /\ UNCHANGED lifecycle_vars
\* one round of _retry_loop, or POST /retry-failed of the admin
OutRetryTick == retry_failed_events(RETRY_LIMIT) /\ UNCHANGED lifecycle_vars
OutSelect == \E t \in TaskSlots : deliver_event_select(t) /\ UNCHANGED lifecycle_vars
OutCommit ==
    \E t \in TaskSlots : \E ok \in BOOLEAN : deliver_event_commit(t, ok) /\ UNCHANGED lifecycle_vars
OutRecover == EndpointRecovers /\ UNCHANGED lifecycle_vars

NextOutbox ==
    \/ OutQueueEvent \/ OutRetryTick \/ OutSelect \/ OutCommit \/ OutRecover

SpecOutbox == InitOutbox /\ [][NextOutbox]_vars

\* C9: the status of an outbox row never moves from sent to failed nor back
\* to queued, and its retries never decrease, whatever the interleaving of the
\* deliveries.
C9_OutboxMonotonic ==
    [][\A e \in EventIds :
          /\ outbox[e].status = "sent" => outbox'[e].status = "sent"
          /\ outbox'[e].status = "queued" => outbox[e].status = "queued"
          /\ outbox'[e].retries >= outbox[e].retries]_vars

------------------------------------------------------------------------------
\* The outbox under fairness: the retry loop keeps running its rounds and the
\* event loop keeps running the scheduled deliveries; the oldest of them is
\* never left waiting for ever

DeliverStep(t) ==
    /\ \/ deliver_event_select(t)
       \/ \E ok \in BOOLEAN : deliver_event_commit(t, ok)
    /\ UNCHANGED lifecycle_vars

SpecOutboxFair ==
    /\ InitOutbox
    /\ [][NextOutbox]_vars
    /\ WF_vars(OutRetryTick)
    /\ WF_vars(DeliverStep(1))

\* C10: once the endpoint answers every POST with a 2xx status, every outbox
\* row that is queued or failed eventually reaches status sent.
C10_EventuallySent ==
    \A e \in 1..MaxEvents :
        (endpoint = "ok" /\ e \in EventIds /\ outbox[e].status \in {"queued", "failed"})
            ~> (e \in EventIds /\ outbox[e].status = "sent")

\* after the endpoint has recovered, a delivery scheduled by a retry round
\* for a failed row has loaded the row and awaits the answer to its POST
C10_Witness ==
    /\ endpoint = "ok"
    /\ webhook_url
    /\ \E t \in DOMAIN tasks :
          /\ tasks[t].pc = "post"
          /\ tasks[t].status = "failed"
          /\ outbox[tasks[t].ev].status = "failed"
          /\ outbox[tasks[t].ev].retries > 0

------------------------------------------------------------------------------
\* Specification of the enqueue path: calls of queue_event with every event
\* type and payload a caller passes

EnqQueueEvent ==
    /\ \E event_type \in EventTypeInputs : \E payload \in Payloads :
          queue_event(event_type, payload)
    /\ UNCHANGED lifecycle_vars

NextEnqueue == EnqQueueEvent

SpecEnqueue == InitOutbox /\ [][NextEnqueue]_vars

\* a step in which a call of queue_event returns or raises
QueueEventStep == enq' # enq \/ Len(outbox') # Len(outbox)

\* C11: queue_event called with a payload that does not validate against the
\* schema of its event_type (a missing or refused field, or an event_type
\* without a schema) raises to the caller, persists no outbox row and
\* schedules no delivery.
C11_InvalidPayloadRaises ==
    [][(/\ QueueEventStep
        /\ IF enq'.event_type \in DOMAIN EVENT_SCHEMAS
           THEN \E f \in EVENT_SCHEMAS[enq'.event_type] : enq'.payload[f] # "valid"
           ELSE TRUE)
          => /\ enq'.raised # "none"
             /\ enq'.returned = NoId
             /\ outbox' = outbox
             /\ tasks' = tasks]_vars

\* a session_ended payload with a negative duration_seconds has been refused
\* and the outbox is empty
C11_Witness ==
    /\ enq.event_type = "session_ended"
    /\ enq.payload = PayloadOver(EVENT_SCHEMAS["session_ended"], "duration_seconds")
    /\ enq.raised = "ValueError"
    /\ outbox = <<>>
    /\ tasks = <<>>

\* C12: for each event_type of the event-type table, queue_event called with
\* a payload that carries the required fields listed for that type (the
\* fields the schema of the type declares itself) persists
\* exactly one outbox row with status queued, schedules exactly one delivery
\* for it and returns the record.
C12_ListedFieldsEnqueue ==
    [][(/\ QueueEventStep
        /\ enq'.event_type \in DOMAIN OwnFields
        /\ \A f \in OwnFields[enq'.event_type] : enq'.payload[f] = "valid")
          => /\ enq'.raised = "none"
             /\ outbox' = Append(outbox, NewEventLog)
             /\ Len(tasks') = Len(tasks) + 1
             /\ tasks'[Len(tasks')].ev = Len(outbox')
             /\ enq'.returned = Len(outbox')]_vars

------------------------------------------------------------------------------
\* Signed webhooks: the sender's signature and verify_hmac_signature

Abs(x) == IF x < 0 THEN 0 - x ELSE x

\* abs(now - ts_int) > max_age_seconds
StaleNever(t, ts_int, max_age) == FALSE

Stale(t, ts_int, max_age) == Abs(t - ts_int) > max_age

\* hmac.compare_digest(sig_recv, digest)
compare_digest_any(a, b) == TRUE

compare_digest(a, b) == a = b

\* verify_hmac_signature(body_bytes, headers, secret, max_age_seconds) at
\* time t, with the default header names and algorithm: (ok, error)
verify_hmac_signature(body, ts, sig, secret, max_age, t) ==
    IF ts.kind = "missing" THEN <<FALSE, "missing X-Webhook-Timestamp">>
    ELSE IF ts.kind # "num" THEN <<FALSE, "invalid timestamp">>
    ELSE IF Stale(t, ts.val, max_age) THEN <<FALSE, "stale or future timestamp">>
    ELSE IF ~sig.present THEN <<FALSE, "missing X-Webhook-Signature">>
    ELSE IF ~compare_digest(sig, hmac_digest(secret, ts, body))
    THEN <<FALSE, "signature mismatch">>
    ELSE <<TRUE, "none">>

\* a request with timestamp header ts and the signature of secret over
\* "{ts}." + body leaves its sender
Sent(secret, ts, body) ==
    [NoHook EXCEPT !.sent = TRUE, !.signed_body = body, !.ts = ts, !.body = body,
                   !.sig = hmac_digest(secret, ts, body), !.clock = hook.clock]

\* post_webhook: the timestamp is str(int(time.time()))
post_webhook(secret, body) ==
    /\ hook' = Sent(secret, str_int(hook.clock), body)
    /\ UNCHANGED <<outbox, tasks, endpoint, webhook_url, enq, sched, post>>

\* a client that signs as build_sig does, with a timestamp header of its own
\* choice
send(secret, ts, body) ==
    /\ hook' = Sent(secret, ts, body)
    /\ UNCHANGED <<outbox, tasks, endpoint, webhook_url, enq, sched, post>>

\* the body of the request is altered on its way
alter_body(body) ==
    /\ hook.sent
    /\ body # hook.body
    /\ hook' = [hook EXCEPT !.body = body, !.checked = FALSE, !.ok = FALSE,
                            !.error = "none", !.secret = 0, !.max_age = 0, !.at = 0,
                            !.validated = FALSE, !.response = 0]
    /\ UNCHANGED <<outbox, tasks, endpoint, webhook_url, enq, sched, post>>

\* one second passes
clock_tick ==
    /\ hook.clock < MaxClock
    /\ hook' = [hook EXCEPT !.clock = @ + 1]
    /\ UNCHANGED <<outbox, tasks, endpoint, webhook_url, enq, sched, post>>

\* the receiver runs verify_hmac_signature on the request
receive_event(secret, max_age) ==
    /\ hook.sent
    /\ LET r == verify_hmac_signature(hook.body, hook.ts, hook.sig, secret, max_age, hook.clock)
       IN hook' = [hook EXCEPT !.checked = TRUE, !.secret = secret, !.max_age = max_age,
                               !.at = hook.clock, !.ok = r[1], !.error = r[2]]
    /\ UNCHANGED <<outbox, tasks, endpoint, webhook_url, enq, sched, post>>

HookPost ==
    /\ \E secret \in Secrets : \E body \in Bodies : post_webhook(secret, body)
    /\ UNCHANGED lifecycle_vars
HookSend ==
    /\ \E secret \in Secrets : \E ts \in TsHeaders : \E body \in Bodies : send(secret, ts, body)
    /\ UNCHANGED lifecycle_vars
HookAlter ==
    /\ \E body \in Bodies : alter_body(body)
    /\ UNCHANGED lifecycle_vars
HookTick == clock_tick /\ UNCHANGED lifecycle_vars
HookReceive ==
    /\ \E secret \in Secrets : \E max_age \in MaxAgeInputs : receive_event(secret, max_age)
    /\ UNCHANGED lifecycle_vars

NextHook == HookPost \/ HookSend \/ HookAlter \/ HookTick \/ HookReceive

SpecHook == InitOutbox /\ [][NextHook]_vars

\* C13: when the timestamp is inside the max-age window and the signature is
\* the one the sender computed with the receiver's secret over
\* "{timestamp}." + body, verify_hmac_signature accepts the request with the
\* signed body and rejects it with "signature mismatch" with any other body.
C13_SignVerifyRoundTrip ==
    (/\ hook.checked
     /\ hook.ts.kind = "num"
     /\ Abs(hook.at - hook.ts.val) <= hook.max_age
     /\ hook.sig = [present |-> TRUE, secret |-> hook.secret, ts |-> hook.ts,
                    body |-> hook.signed_body])
        => /\ hook.body = hook.signed_body => hook.ok /\ hook.error = "none"
           /\ hook.body # hook.signed_body => ~hook.ok /\ hook.error = "signature mismatch"

\* a request signed by post_webhook, altered on its way and verified inside
\* the window with the sender's secret has been rejected
C13_Witness ==
    /\ hook.checked
    /\ hook.ts = str_int(hook.ts.val)
    /\ hook.at - hook.ts.val <= hook.max_age
    /\ hook.sig.present /\ hook.sig.secret = hook.secret /\ hook.sig.body = hook.signed_body
    /\ hook.body # hook.signed_body
    /\ ~hook.ok

\* C14: verify_hmac_signature rejects every request whose timestamp header is
\* missing, non-numeric or older than max_age_seconds, also when the signature
\* is the HMAC of that timestamp and body.
C14_BadTimestampRejected ==
    (/\ hook.checked
     /\ \/ hook.ts.kind \in {"missing", "text"}
        \/ hook.at - hook.ts.val > hook.max_age)
        => ~hook.ok

\* a request with the right signature for its timestamp and body, verified
\* later than max_age_seconds after its timestamp, has been rejected
C14_Witness ==
    /\ hook.checked
    /\ hook.ts.kind = "num"
    /\ hook.at - hook.ts.val > hook.max_age
    /\ hook.body = hook.signed_body
    /\ hook.sig.present /\ hook.sig.secret = hook.secret /\ hook.sig.ts = hook.ts
    /\ hook.error = "stale or future timestamp"

------------------------------------------------------------------------------
\* The License Ledger over sequences of operations

\* the step in which handler p returns from activate_license on license c
ActivateStep(p, c) ==
    /\ loc'[p].op = "activate"
    /\ loc'[p].lic = c
    /\ loc'[p] # loc[p] \/ licenses' # licenses

\* C15: activate_license on a license whose activated_at is null sets
\* is_active = true and activated_at = now and returns duration_minutes as
\* remaining; once set, activated_at is never modified by any later operation
\* (activate, start, join, end, sweep, admin revoke and reactivate).
C15_ActivatedAtSetOnce ==
    /\ [][\A c \in LicenseCodes : \A p \in Procs :
             (ActivateStep(p, c) /\ licenses[c].activated_at = NoTime)
                => /\ licenses'[c].is_active
                   /\ licenses'[c].activated_at = now
                   /\ loc'[p].result = "ok"
                   /\ loc'[p].ml = licenses[c].duration_minutes]_vars
    /\ [][\A c \in LicenseCodes :
             licenses[c].activated_at # NoTime
                => licenses'[c].activated_at = licenses[c].activated_at]_vars

\* a license activated in the past has started a session, was reactivated by
\* the admin, and activate_license has been called on it again
C15_Witness ==
    \E c \in LicenseCodes :
        /\ licenses[c].activated_at # NoTime
        /\ licenses[c].activated_at < now
        /\ c \notin consumed
        /\ \E s \in SessionIds : sessions[s].license_id = c
        /\ loc["r1"].op = "activate" /\ loc["r1"].lic = c /\ loc["r1"].result = "ok"

\* C16: a license that is inactive with activated_at set becomes active again
\* by admin_reactivate only, whatever the sequence of operations, and
\* activate_license on it returns license_used and changes no state.
C16_UsedLicenseStaysUsed ==
    [][\A c \in LicenseCodes :
          (licenses[c].activated_at # NoTime /\ ~licenses[c].is_active)
             => /\ licenses'[c].is_active
                   => \E p \in Procs : loc'[p].op = "reactivate" /\ loc'[p].lic = c
                /\ \A p \in Procs :
                      ActivateStep(p, c)
                         => /\ loc'[p].result = "license_used"
                            /\ licenses' = licenses
                            /\ sessions' = sessions
                            /\ listeners' = listeners]_vars

\* activate_license has answered license_used for a license consumed by a
\* start
C16_Witness ==
    \E c \in LicenseCodes :
        /\ licenses[c].activated_at # NoTime
        /\ ~licenses[c].is_active
        /\ c \in consumed
        /\ loc["r1"].op = "activate" /\ loc["r1"].lic = c
        /\ loc["r1"].result = "license_used"


------------------------------------------------------------------------------
\* Specification of the PIN of a session: concurrent starts draw their
\* candidates from the same space while the sessions table either is empty or
\* holds the ended session of an earlier tour (its license was reactivated by
\* the admin since).  Every license was activated at time 0.

EndedSession(c, pin, at) ==
    [StartedSession(c, pin, at, compute_expiry(at, DurationMinutes(c)))
        EXCEPT !.is_active = FALSE, !.ended_at = at]

InitPins ==
    /\ now = 0
    /\ licenses = [c \in LicenseCodes |-> FirstActivation(LicenseRow(c), 0)]
    /\ sessions \in {<<>>, <<EndedSession(1, 1, 0)>>}
    /\ listeners = <<>>
    /\ events = EmptyBag
    /\ kill_log = {}
    /\ log_failures = 0
    /\ consumed = {}
    /\ IdleProcs
    /\ OutboxIdle

PinStartLoad ==
    /\ Len(sessions) + StartsInFlight < MaxSessions
    /\ \E p \in Requesters : \E c \in LicenseCodes : \E r \in RequestedDefault :
           get_license_by_code(p, c, r[1], r[2])
    /\ UNCHANGED outbox_vars
NextPins ==
    \/ PinStartLoad \/ RaceStartCheck \/ RaceStartPin \/ RaceStartCommit \/ RaceTick

SpecPins == InitPins /\ [][NextPins]_vars

\* C17: in every reachable state, also after interleaved concurrent starts, no
\* two sessions with is_active = true have the same pin.
C17_ActivePinsDistinct ==
    \A s \in SessionIds : \A t \in SessionIds :
        (s # t /\ sessions[s].is_active /\ sessions[t].is_active)
            => sessions[s].pin # sessions[t].pin

\* a start whose PIN passed the check lost the race for it: a session was
\* committed while the call was running, and the call ended in db_error
C17_Witness ==
    \E p \in Requesters :
        /\ Idle(p) /\ loc[p].op = "start" /\ loc[p].result = "db_error"
        /\ loc[p].pre_nsess < Len(sessions)
        /\ \E s \in SessionIds : sessions[s].is_active

\* C18: when the commit of start_session_for_license finds the pin of the new
\* row already in the sessions table (taken by a concurrent start or held by
\* any existing row), the call returns db_error, no exception escapes, no
\* session row is persisted and the persisted licenses are as before.
C18_UniqueViolationIsDbError ==
    [][\A p \in Requesters :
          (/\ pc[p] = "start_commit" /\ pc'[p] = "idle"
           /\ \E s \in SessionIds : sessions[s].pin = loc[p].newsess.pin)
          => /\ loc'[p].result = "db_error"
             /\ sessions' = sessions
             /\ licenses' = licenses]_vars

\* a start ended in db_error on the pin of the ended session of the earlier
\* tour, with no other start committing meanwhile
C18_Witness ==
    \E p \in Requesters :
        /\ Idle(p) /\ loc[p].op = "start" /\ loc[p].result = "db_error"
        /\ loc[p].pre_nsess = Len(sessions)
        /\ \A s \in SessionIds : ~sessions[s].is_active
        /\ licenses[loc[p].lic].is_active

------------------------------------------------------------------------------
\* Specification of the lifecycle of one tour, used sequentially: the license
\* was activated at time 0; it starts a session, guests join and leave, and
\* the session is ended by the guide or by the sweeper, any number of times.

InitRegistry ==
    /\ now = 0
    /\ licenses = [c \in LicenseCodes |->
                      IF c = 1 THEN FirstActivation(LicenseRow(c), 0) ELSE LicenseRow(c)]
    /\ sessions = <<>>
    /\ listeners = <<>>
    /\ events = EmptyBag
    /\ kill_log = {}
    /\ log_failures = 0
    /\ consumed = {}
    /\ IdleProcs
    /\ OutboxIdle

NextRegistry ==
    \/ LedgerStartLoad \/ LedgerStartCheck \/ LedgerStartPin \/ LedgerStartCommit
    \/ LedgerTick
    \/ EngJoin \/ EngJoinInsert \/ EngLeave
    \/ EngEndSession \/ EngEndListener \/ EngEndFinish
    \/ EngSweep \/ EngSweepNext

SpecRegistry == InitRegistry /\ [][NextRegistry]_vars

\* one iteration of the listeners loop of end_session_logic made by p on a
\* listener whose row is disconnected
DisconnectAgain(p) ==
    /\ pc[p] = "end_listeners"
    /\ loc'[p].idx = loc[p].idx + 1
    /\ ~listeners[loc[p].lst[loc[p].idx]].is_connected

\* C19: under every sequence of start, join, leave, end and sweep, a session
\* that is not active stays not active, a listener that is not connected stays
\* not connected, a left_at that was assigned keeps its value, and
\* disconnecting a listener that is already disconnected changes no row, emits
\* no event and is counted as not modified.
C19_FlagsMonotonic ==
    [][/\ \A s \in SessionIds : ~sessions[s].is_active => ~sessions'[s].is_active
       /\ \A i \in ListenerIds :
             /\ ~listeners[i].is_connected => ~listeners'[i].is_connected
             /\ listeners[i].left_at # NoTime => listeners'[i].left_at = listeners[i].left_at
       /\ \A p \in Procs :
             DisconnectAgain(p)
                 => /\ listeners' = listeners
                    /\ events' = events
                    /\ loc'[p].modified = loc[p].modified
                    /\ loc'[p].ldirty = loc[p].ldirty]_vars

\* the session was ended a second time at a later moment: the call took the
\* late path over a listener that had been disconnected before
C19_Witness ==
    \E p \in Procs :
        /\ Idle(p) /\ loc[p].op = "end" /\ loc[p].result = "ok" /\ loc[p].late
        /\ ~sessions[loc[p].sid].is_active
        /\ \E i \in ListenersOf(loc[p].sid) :
              /\ ~listeners[i].is_connected
              /\ listeners[i].left_at # NoTime /\ listeners[i].left_at < now

------------------------------------------------------------------------------
\* Specification of concurrent terminations: the /end-session handlers run in
\* the thread pool and the sweeper in the event loop, each with its own
\* database session, so two terminations of the session started at time 0
\* interleave between their query and their commit while time passes.

EndRaceEnd ==
    /\ \E p \in Requesters : \E sid \in SessionIds : \E logger \in {"none", "log_event"} :
          end_session_logic(p, sid, "manual", logger, FALSE)
    /\ UNCHANGED outbox_vars
EndRaceSweep ==
    /\ auto_close_tick("sw")
    /\ UNCHANGED outbox_vars
NextEndRace ==
    \/ EndRaceEnd \/ EndRaceSweep \/ EngSweepNext \/ EngEndFinish \/ RaceTick

SpecEndRace == InitKill /\ [][NextEndRace]_vars

\* C20: when terminations of one active session interleave, the ended_at of
\* the session is assigned one value only (once set it is never written with
\* another value) and at most one session_ended event of the session exists.
C20_EndedOnceUnderRace ==
    [][\A s \in SessionIds :
          /\ sessions[s].ended_at # NoTime => sessions'[s].ended_at = sessions[s].ended_at
          /\ CopiesIn([type |-> "session_ended", session_id |-> s], events') <= 1]_vars

------------------------------------------------------------------------------
\* Specification of end_session_logic on a session that is already ended:
\* session 1 was ended at time 0 and has listener rows, some of them still
\* connected (a join that passed its checks before the end committed inserts
\* its listener afterwards).  The calls carry every kind of event logger and
\* are made with or without a kill switch.

InitLate ==
    /\ now = 1
    /\ licenses = [c \in LicenseCodes |->
                      IF c = 1 THEN [LicenseRow(c) EXCEPT !.activated_at = 0]
                      ELSE LicenseRow(c)]
    /\ sessions = <<EndedSession(1, 1, 0)>>
    /\ \E n \in 0..MaxListenerRows :
          listeners \in [1..n -> {[session_id |-> 1, is_connected |-> TRUE, left_at |-> NoTime],
                                  [session_id |-> 1, is_connected |-> FALSE, left_at |-> 0]}]
    /\ events = EmptyBag
    /\ kill_log = {}
    /\ log_failures = 0
    /\ consumed = {1}
    /\ IdleProcs
    /\ OutboxIdle

NextLate ==
    \/ KillEndLogic \/ KillEndListener \/ KillEndFinish \/ KillEndKill \/ KillTick

SpecLate == InitLate /\ [][NextLate]_vars

\* the number of events of a type logged for a session
EventCount(ev, type, sid) == CopiesIn([type |-> type, session_id |-> sid], ev)

\* C21: a call of end_session_logic on a session that is already ended leaves
\* every listener of the session disconnected when it returns, logs one
\* listener_left event for each listener it disconnects (with log_event as
\* the logger), logs no session_ended event, leaves ended_at unchanged, and
\* with a kill switch supplied still invokes it, with the late-sync reason.
C21_LateSyncPath ==
    [][\A p \in Procs :
          (/\ loc[p].op = "end" /\ loc[p].late /\ pc[p] # "idle"
           /\ (pc'[p] # pc[p] \/ loc'[p] # loc[p]))
          => LET l == loc[p]
             IN /\ sessions'[l.sid].ended_at = sessions[l.sid].ended_at
                /\ EventCount(events', "session_ended", l.sid)
                       = EventCount(events, "session_ended", l.sid)
                /\ (pc[p] = "end_listeners" /\ l.logger = "log_event"
                        /\ listeners[l.lst[l.idx]].is_connected)
                   => EventCount(events', "listener_left", l.sid)
                          = EventCount(events, "listener_left", l.sid) + 1
                /\ (pc[p] = "end_finish" /\ l.ks) => pc'[p] = "end_kill"
                /\ pc[p] = "end_kill"
                   => [session_id |-> l.sid, reason |-> l.reason, late |-> TRUE] \in kill_log'
                /\ pc'[p] = "idle"
                   => \A i \in ListenersOf(l.sid) : ~listeners'[i].is_connected]_vars

------------------------------------------------------------------------------
\* The kill switch

\* the kill-switch events logged for a session: the starts and the outcomes
KillStarts(ev, sid) == EventCount(ev, "KILL_SWITCH_START", sid)
KillOutcomes(ev, sid) ==
    EventCount(ev, "KILL_SWITCH_SUCCESS", sid) + EventCount(ev, "KILL_SWITCH_FAIL", sid)

\* a step of a call of end_session_logic made by p
EndLogicStep(p) ==
    /\ loc[p].op \in {"end", "sweep"} /\ pc[p] # "idle"
    /\ (pc'[p] # pc[p] \/ loc'[p] # loc[p])

\* what holds of the kill switch whether or not the events are persisted: its
\* exception does not leave end_session_logic, it changes no session and no
\* listener row, and a call without kill switch logs no kill-switch event
KillSwitchContained(p) ==
    LET l == loc[p]
    IN /\ loc'[p].result # "raised"
       /\ pc[p] = "end_kill" => (sessions' = sessions /\ listeners' = listeners)
       /\ ~l.ks => /\ KillStarts(events', l.sid) = KillStarts(events, l.sid)
                   /\ KillOutcomes(events', l.sid) = KillOutcomes(events, l.sid)

------------------------------------------------------------------------------
\* Specification of the end of a tour whose license the admin may reactivate
\* while the session is running: license 1 started session 1 at time 0; the
\* session is ended by the guide or by the sweeper, one request at a time.

NextTour ==
    \/ LedgerReactivate \/ LedgerRevoke
    \/ EngEndSession \/ EngEndFinish \/ EngSweep \/ EngSweepNext \/ EngTick

SpecTour == InitKill /\ [][NextTour]_vars

\* C23: when a termination of a session returns (manual end or sweep), the
\* license of the session is inactive, also when it was active at the moment
\* of the termination.
C23_LicenseInactiveAfterEnd ==
    [][\A p \in Procs :
          (/\ loc[p].op \in {"end", "sweep"} /\ loc[p].sid \in SessionIds
           /\ pc[p] # "idle" /\ pc'[p] = "idle" /\ loc'[p].result = "ok")
          => ~licenses'[sessions'[loc[p].sid].license_id].is_active]_vars

------------------------------------------------------------------------------
\* The periodic loops of app/core/scheduler.py

\* loop.create_task(_retry_loop(app)) or loop.create_task(_auto_close_loop(app)):
\* the new task waits for the event loop to run it
NewLoop(kind) == [kind |-> kind, at |-> "sleep", failed |-> FALSE]

\* "if getattr(app.state, ..., None) is None" of start_scheduler
HandleIsNoneAlways(h) == TRUE

HandleIsNone(h) == h = NoId

\* start_scheduler(app) with SCHEDULER_ENABLED, on scheduler state sc: a task
\* is created for every handle that is None
start_scheduler(sc) ==
    LET s0 == [sc EXCEPT !.starts = @ + 1]
        s1 == IF HandleIsNone(s0.retry_task)
              THEN [s0 EXCEPT !.loops = Append(@, NewLoop("retry")),
                              !.retry_task = Len(s0.loops) + 1]
              ELSE s0
    IN IF HandleIsNone(s1.auto_close_task)
       THEN [s1 EXCEPT !.loops = Append(@, NewLoop("auto_close")),
                       !.auto_close_task = Len(s1.loops) + 1]
       ELSE s1

\* the scheduler after start_scheduler at startup
SchedulerStarted == start_scheduler(SchedulerOff)

LoopTasks(kind, at) ==
    {t \in DOMAIN sched.loops : sched.loops[t].kind = kind /\ sched.loops[t].at = at}

\* _auto_close_loop, "while True": the sleep is over and the tick begins with
\* the candidates query of close_all_expired_sessions(db, event_logger=log_event)
auto_close_wake(t) ==
    /\ t \in LoopTasks("auto_close", "sleep")
    /\ auto_close_tick("sw")
    /\ sched' = [sched EXCEPT !.loops[t].at = "tick", !.loops[t].failed = FALSE]
    /\ UNCHANGED <<outbox, tasks, endpoint, webhook_url, enq, hook, post>>

\* _auto_close_loop: close_all_expired_sessions has returned; db.close() and
\* "await asyncio.sleep(interval)"
auto_close_sleep(t) ==
    /\ t \in LoopTasks("auto_close", "tick")
    /\ Idle("sw")
    /\ sched' = [sched EXCEPT !.loops[t].at = "sleep"]
    /\ UNCHANGED <<lifecycle_vars, outbox, tasks, endpoint, webhook_url, enq, hook, post>>

------------------------------------------------------------------------------
\* Specification of the sweeper loop beside late joins: session 1 was
\* started at time 0 and expires at time 2, guests join it, and the
\* auto-close loop runs its ticks for ever.  A join that arrives after the
\* expiry and before the next tick takes the fast path of join_session_by_pin.

InitLazy ==
    /\ now = 1
    /\ licenses = [c \in LicenseCodes |->
                      IF c = 1 THEN [LicenseRow(c) EXCEPT !.activated_at = 0]
                      ELSE LicenseRow(c)]
    /\ sessions = <<StartedSession(1, 1, 0, 2)>>
    /\ listeners = <<>>
    /\ events = EmptyBag
    /\ kill_log = {}
    /\ log_failures = 0
    /\ consumed = {1}
    /\ IdleProcs
    /\ outbox = <<>>
    /\ tasks = <<>>
    /\ endpoint = "flaky"
    /\ webhook_url = TRUE
    /\ enq = NoCall
    /\ hook = NoHook
    /\ sched = SchedulerStarted
    /\ post = NoPost

LazyJoin ==
    /\ Idle("r1")
    /\ \E pin \in PinSpace : join_session_by_pin("r1", pin)
    /\ pc'["r1"] = "join_insert" => Len(listeners) < MaxListenerRows
    /\ UNCHANGED outbox_vars
LazyWake == \E t \in DOMAIN sched.loops : auto_close_wake(t)
LazySleep == \E t \in DOMAIN sched.loops : auto_close_sleep(t)
LazyTick ==
    /\ Tick
    /\ UNCHANGED outbox_vars

NextLazy ==
    \/ LazyJoin \/ EngJoinInsert
    \/ LazyWake \/ EngSweepNext \/ EngEndListener \/ EngEndFinish \/ LazySleep
    \/ LazyTick

\* the event loop runs the auto-close task whenever its sleep is over, and a
\* request or tick that has begun runs to its end
SpecLazyFair ==
    /\ InitLazy /\ [][NextLazy]_vars
    /\ WF_vars(LazyWake) /\ WF_vars(LazySleep)
    /\ WF_vars(EngSweepNext) /\ WF_vars(EngEndListener) /\ WF_vars(EngEndFinish)
    /\ WF_vars(EngJoinInsert)

\* C24: a session that join_session_by_pin deactivated through its expiry
\* fast path (is_active = false, ended_at NULL) is eventually taken through
\* the full termination by the sweeper: its ended_at is set and all its
\* listeners are disconnected.
C24_LazyExpiredEventuallyEnded ==
    \A s \in 1..MaxSessions :
        (s \in SessionIds /\ ~sessions[s].is_active /\ sessions[s].ended_at = NoTime)
            ~> (/\ s \in SessionIds
                /\ sessions[s].ended_at # NoTime
                /\ \A i \in ListenersOf(s) : ~listeners[i].is_connected)

------------------------------------------------------------------------------
\* The loops and stop_scheduler

\* "except Exception as e" of a loop: the exception of the tick is logged and
\* the loop goes on to "await asyncio.sleep(interval)"
TickRaisedEscapes(task) == [task EXCEPT !.at = "dead", !.failed = TRUE]

TickRaisedCaught(task) == [task EXCEPT !.at = "tick", !.failed = TRUE]

\* the loop tasks that have neither been cancelled nor ended
LiveLoops(sc, kind) ==
    {t \in DOMAIN sc.loops : sc.loops[t].kind = kind /\ sc.loops[t].at \in {"sleep", "tick"}}

\* _retry_loop, "while True": one tick, retry_failed_events(db, _ShimBT(),
\* limit) on a fresh database session; raised is whether a statement of the
\* tick raised (the database does not answer)
retry_wake(t) ==
    /\ t \in LoopTasks("retry", "sleep")
    /\ \E raised \in BOOLEAN :
          IF raised
          THEN /\ sched' = [sched EXCEPT !.loops[t] = TickRaisedCaught(@)]
               /\ UNCHANGED tasks
          ELSE LET ids == RetryBatch(RETRY_LIMIT)
               IN /\ Len(tasks) + Len(ids) <= MaxTasks
                  /\ tasks' = Scheduled(ids)
                  /\ sched' = [sched EXCEPT !.loops[t].at = "tick", !.loops[t].failed = FALSE]
    /\ UNCHANGED <<outbox, endpoint, webhook_url, enq, hook, post>>

\* _retry_loop: "await asyncio.sleep(interval)"
retry_sleep(t) ==
    /\ t \in LoopTasks("retry", "tick")
    /\ sched' = [sched EXCEPT !.loops[t].at = "sleep"]
    /\ UNCHANGED <<outbox, tasks, endpoint, webhook_url, enq, hook, post>>

\* an exception in end_session_logic for the candidate at hand (its query of
\* the session raises): close_all_expired_sessions has no handler, so the
\* exception leaves its "for s in candidates" and is caught by the loop
auto_close_raise(t) ==
    /\ t \in LoopTasks("auto_close", "tick")
    /\ pc["sw"] = "end_load"
    /\ loc' = [loc EXCEPT !["sw"] = Done([@ EXCEPT !.result = "raised"])]
    /\ pc' = [pc EXCEPT !["sw"] = "idle"]
    /\ sched' = [sched EXCEPT !.loops[t] = TickRaisedCaught(@)]
    /\ UNCHANGED <<now, licenses, sessions, listeners, events, kill_log, log_failures, consumed>>
    /\ UNCHANGED <<outbox, tasks, endpoint, webhook_url, enq, hook, post>>

\* task.cancel() and "await task" of stop_scheduler: the CancelledError is
\* raised in the task at its asyncio.sleep and ends it
Cancelled(sc, h) == [sc EXCEPT !.loops[h].at = "cancelled"]

\* the first half of stop_scheduler, up to the end of "await retry_task"; with
\* no retry task registered nothing is awaited and the second half follows
\* at once
stop_retry(sc) ==
    IF sc.retry_task = NoId THEN sc
    ELSE [Cancelled(sc, sc.retry_task) EXCEPT !.retry_task = NoId]

stop_auto_close(sc) ==
    IF sc.auto_close_task = NoId THEN sc
    ELSE [Cancelled(sc, sc.auto_close_task) EXCEPT !.auto_close_task = NoId]

\* a coroutine of the event loop runs only while no tick is running
EventLoopFree == \A t \in DOMAIN sched.loops : sched.loops[t].at # "tick"

stop_scheduler_begin ==
    /\ ~sched.stopping
    /\ EventLoopFree
    /\ sched' = IF sched.retry_task = NoId
                THEN stop_auto_close(sched)
                ELSE [stop_retry(sched) EXCEPT !.stopping = TRUE]
    /\ UNCHANGED <<outbox, tasks, endpoint, webhook_url, enq, hook, post>>

stop_scheduler_end ==
    /\ sched.stopping
    /\ EventLoopFree
    /\ sched' = [stop_auto_close(sched) EXCEPT !.stopping = FALSE]
    /\ UNCHANGED <<outbox, tasks, endpoint, webhook_url, enq, hook, post>>

------------------------------------------------------------------------------
\* Specification of the scheduler: the application comes up with two sessions
\* that expired while it was down and an empty outbox; start_scheduler and
\* stop_scheduler are called one after the other, the loops run their ticks
\* and a tick may raise.

MaxStartCalls == 2

InitScheduler ==
    /\ now = 3
    /\ licenses = [c \in LicenseCodes |->
                      IF c = 1 THEN [LicenseRow(c) EXCEPT !.activated_at = 0]
                      ELSE LicenseRow(c)]
    /\ sessions = <<StartedSession(1, 1, 0, 2), StartedSession(1, 2, 1, 3)>>
    /\ listeners = <<>>
    /\ events = EmptyBag
    /\ kill_log = {}
    /\ log_failures = 0
    /\ consumed = {1}
    /\ IdleProcs
    /\ outbox = <<>>
    /\ tasks = <<>>
    /\ endpoint = "flaky"
    /\ webhook_url = TRUE
    /\ enq = NoCall
    /\ hook = NoHook
    /\ sched = SchedulerOff
    /\ post = NoPost

SchedStart ==
    /\ ~sched.stopping
    /\ EventLoopFree
    /\ sched.starts < MaxStartCalls
    /\ sched' = start_scheduler(sched)
    /\ UNCHANGED <<lifecycle_vars, outbox, tasks, endpoint, webhook_url, enq, hook, post>>
SchedStopBegin == stop_scheduler_begin /\ UNCHANGED lifecycle_vars
SchedStopEnd == stop_scheduler_end /\ UNCHANGED lifecycle_vars
SchedRetryWake == \E t \in DOMAIN sched.loops : retry_wake(t) /\ UNCHANGED lifecycle_vars
SchedRetrySleep == \E t \in DOMAIN sched.loops : retry_sleep(t) /\ UNCHANGED lifecycle_vars
SchedAutoRaise == \E t \in DOMAIN sched.loops : auto_close_raise(t)

NextScheduler ==
    \/ SchedStart \/ SchedStopBegin \/ SchedStopEnd
    \/ SchedRetryWake \/ SchedRetrySleep
    \/ LazyWake \/ EngSweepNext \/ EngEndFinish \/ SchedAutoRaise \/ LazySleep

SpecScheduler == InitScheduler /\ [][NextScheduler]_vars

\* the event loop runs every task that is ready: a loop whose sleep is over,
\* a tick that has begun
SpecSchedulerFair ==
    /\ SpecScheduler
    /\ WF_vars(SchedRetryWake) /\ WF_vars(SchedRetrySleep)
    /\ WF_vars(LazyWake) /\ WF_vars(LazySleep)
    /\ WF_vars(EngSweepNext \/ SchedAutoRaise) /\ WF_vars(EngEndFinish)

\* C25: within one tick of the sweeper over several expired sessions, an
\* exception raised while terminating one session does not keep the other
\* sessions selected in that tick from being terminated in the same tick:
\* when the tick is over, end_session_logic has returned for every selected
\* session but the one that raised.
C25_SiblingsStillTerminated ==
    (Idle("sw") /\ loc["sw"].op = "sweep" /\ loc["sw"].result = "raised") =>
        loc["sw"].closed = Cardinality(loc["sw"].swept) - 1

\* the task a handle of app.state names, for the loop of a kind
Handle(kind) == IF kind = "retry" THEN sched.retry_task ELSE sched.auto_close_task

\* the registered loop task of a kind is at a place, or its last tick raised
LoopAt(kind, at) == Handle(kind) # NoId /\ sched.loops[Handle(kind)].at = at
LoopFailed(kind) == Handle(kind) # NoId /\ sched.loops[Handle(kind)].failed

\* C26: neither periodic loop ends because of an exception raised inside a
\* tick: the registered task of a loop whose tick raised goes on to its sleep,
\* and a sleeping one runs its next tick, unless stop_scheduler cancels it and
\* clears its handle; so the ticks recur until the task is cancelled.
C26_LoopsSurviveFailingTicks ==
    \A kind \in {"retry", "auto_close"} :
        /\ LoopFailed(kind) ~> (LoopAt(kind, "sleep") \/ Handle(kind) = NoId)
        /\ LoopAt(kind, "sleep") ~> (LoopAt(kind, "tick") \/ Handle(kind) = NoId)

\* both loops sleep after a tick that raised
C26_Witness ==
    /\ \E t \in LoopTasks("retry", "sleep") : sched.loops[t].failed
    /\ \E t \in LoopTasks("auto_close", "sleep") : sched.loops[t].failed

\* C27: with the scheduler enabled, whatever the sequence of start_scheduler
\* and stop_scheduler calls, the only live loop task of each kind is the one
\* its handle on app.state names, so at most one of each kind is live;
\* start_scheduler creates no task of a kind whose handle is set; and when
\* stop_scheduler returns both handles are None, so no loop task is live.
C27_NoDoubleScheduling ==
    [][/\ LiveLoops(sched', "retry") \subseteq {sched'.retry_task}
       /\ LiveLoops(sched', "auto_close") \subseteq {sched'.auto_close_task}
       /\ sched.retry_task # NoId =>
              LiveLoops(sched', "retry") \subseteq LiveLoops(sched, "retry")
       /\ sched.auto_close_task # NoId =>
              LiveLoops(sched', "auto_close") \subseteq LiveLoops(sched, "auto_close")
       /\ (sched.stopping /\ ~sched'.stopping) =>
              /\ sched'.retry_task = NoId /\ sched'.auto_close_task = NoId
              /\ \A t \in DOMAIN sched'.loops : sched'.loops[t].at = "cancelled"]_vars

\* start_scheduler was called twice in a row and only one task of each kind
\* exists, both live
C27_Witness ==
    /\ sched.starts = 2
    /\ Len(sched.loops) = 2
    /\ LiveLoops(sched, "retry") = {sched.retry_task}
    /\ LiveLoops(sched, "auto_close") = {sched.auto_close_task}

\* stop_scheduler has returned after a start: both tasks are cancelled
C27_Stopped ==
    /\ sched.starts = 1 /\ ~sched.stopping
    /\ Len(sched.loops) = 2
    /\ \A t \in DOMAIN sched.loops : sched.loops[t].at = "cancelled"


------------------------------------------------------------------------------
\* Specification of start_session on its own: every license was activated at
\* time 0, the starts come one at a time with every kind of value for
\* requested_max_listeners (None, 0, a negative number, a positive number
\* outside the allowed set, an allowed number), time passes beyond the
\* duration of the licenses, and activate_license is called again.  The
\* sessions table either is empty or holds the running session of license 1,
\* which the admin reactivated after the start.

RequestedAny == {<<FALSE, 0>>, <<TRUE, 0>>, <<TRUE, -1>>, <<TRUE, 7>>, <<TRUE, 25>>}

InitStart ==
    /\ now = 0
    /\ licenses = [c \in LicenseCodes |-> FirstActivation(LicenseRow(c), 0)]
    /\ sessions \in {<<>>, <<StartedSession(1, 1, 0, compute_expiry(0, DurationMinutes(1)))>>}
    /\ listeners = <<>>
    /\ events = EmptyBag
    /\ kill_log = {}
    /\ log_failures = 0
    /\ consumed = {}
    /\ IdleProcs
    /\ OutboxIdle

StartLoad ==
    /\ AllIdle
    /\ Len(sessions) < MaxSessions
    /\ \E c \in LicenseCodes : \E r \in RequestedAny :
           get_license_by_code("r1", c, r[1], r[2])
    /\ UNCHANGED outbox_vars

NextStart ==
    \/ StartLoad \/ LedgerStartCheck \/ LedgerStartPin \/ LedgerStartCommit
    \/ LedgerActivate \/ LedgerTick

SpecStart == InitStart /\ [][NextStart]_vars

\* the license row is past its duration at the present time
PastDuration(lic) == now - lic.activated_at >= lic.duration_minutes * TicksPerMinute

\* the step in which handler p runs the checks of start_session_for_license
StartCheckStep(p) == pc[p] = "start_check" /\ pc'[p] # "start_check"

\* C28: for every supplied requested_max_listeners that is not in
\* {10, 25, 35, 100}, 0 and the negative values included,
\* start_session_for_license on an active, unexpired license returns
\* invalid_max_listeners, creates no session and leaves the license unchanged.
C28_InvalidMaxListenersRefused ==
    [][\A p \in Procs :
          (/\ StartCheckStep(p)
           /\ loc[p].licsnap.is_active /\ loc[p].licsnap.activated_at # NoTime
           /\ ~PastDuration(loc[p].licsnap)
           /\ loc[p].ml_given /\ loc[p].ml \notin ALLOWED_MAX_LISTENERS)
          => /\ pc'[p] = "idle"
             /\ loc'[p].result = "invalid_max_listeners"
             /\ sessions' = sessions
             /\ licenses' = licenses]_vars


\* C29: start_session_for_license on an active license whose elapsed time
\* since activation is at least duration_minutes returns license_expired,
\* creates no session and persists is_active = false on the license; and
\* activate_license on a license left inactive with activated_at set returns
\* license_used.
C29_LazyExpiryPersisted ==
    [][\A p \in Procs :
          /\ (/\ StartCheckStep(p)
              /\ loc[p].licsnap.is_active /\ loc[p].licsnap.activated_at # NoTime
              /\ PastDuration(loc[p].licsnap))
             => /\ pc'[p] = "idle"
                /\ loc'[p].result = "license_expired"
                /\ sessions' = sessions
                /\ ~licenses'[loc[p].lic].is_active
          /\ \A c \in LicenseCodes :
                (/\ ActivateStep(p, c)
                 /\ ~licenses[c].is_active /\ licenses[c].activated_at # NoTime)
                => loc'[p].result = "license_used"]_vars

\* activate_license has answered license_used for a license that never
\* started a session: the lazy expiry of a start left it inactive
C29_Witness ==
    \E c \in LicenseCodes :
        /\ Idle("r1") /\ loc["r1"].op = "activate" /\ loc["r1"].lic = c
        /\ loc["r1"].result = "license_used"
        /\ \A s \in SessionIds : sessions[s].license_id # c
        /\ ~licenses[c].is_active

\* C30: start_session_for_license tries at most PIN_GENERATION_TRIES = 6
\* candidates; it takes the first one that no active session has, and
\* returns pin_generation_failed exactly when the sixth candidate in a row is
\* the pin of an active session; then no session is inserted and the license
\* row is as before, still active.
C30_PinGenerationFailed ==
    [][\A p \in Procs :
          (pc[p] = "start_pin" /\ loc'[p] # loc[p])
          => /\ loc[p].tries < PIN_GENERATION_TRIES
             /\ pc'[p] = "start_commit" => loc'[p].pin \notin ActivePins
             /\ pc'[p] = "start_pin" =>
                    /\ loc'[p].tries = loc[p].tries + 1
                    /\ loc'[p].tries < PIN_GENERATION_TRIES
             /\ pc'[p] = "idle" =>
                    /\ loc'[p].result = "pin_generation_failed"
                    /\ loc[p].tries = PIN_GENERATION_TRIES - 1
                    /\ ActivePins # {}
                    /\ sessions' = sessions
                    /\ licenses' = licenses
                    /\ licenses'[loc[p].lic].is_active]_vars

\* a start has returned pin_generation_failed and its license is still active
C30_Witness ==
    /\ Idle("r1") /\ loc["r1"].op = "start"
    /\ loc["r1"].result = "pin_generation_failed"
    /\ licenses[loc["r1"].lic].is_active
    /\ Len(sessions) = loc["r1"].pre_nsess


\* C31: every session created by start_session_for_license expires when its
\* license does: expires_at = now + (duration_minutes - elapsed), that is
\* activated_at + duration_minutes, with the time measured below the minute.
C31_ExpiresWithLicense ==
    \A s \in SessionIds :
        sessions[s].expires_at =
            licenses[sessions[s].license_id].activated_at
                + licenses[sessions[s].license_id].duration_minutes * TicksPerMinute

------------------------------------------------------------------------------
\* Specification of the retried deliveries.  The outbox holds two rows left
\* by an earlier run of the service: failed rows (one of them was sent once
\* and failed again under a second delivery, one has a payload that the schema
\* of its type no longer accepts), a sent row, and a queued row whose delivery
\* was lost at a restart.  The admin calls POST /retry-failed with a limit, the
\* scheduled deliveries run interleaved at their await.

\* ?limit= of POST /retry-failed, between 1 and 1000
RetryLimits == {1, 2, RETRY_LIMIT}

OutboxRows ==
    {[status |-> "failed", retries |-> 1, last_error |-> "post_error",
      delivered_at |-> NoTime, valid |-> TRUE],
     [status |-> "failed", retries |-> 1, last_error |-> "post_error",
      delivered_at |-> 0, valid |-> TRUE],
     [status |-> "failed", retries |-> 1, last_error |-> "post_error",
      delivered_at |-> NoTime, valid |-> FALSE],
     [status |-> "sent", retries |-> 0, last_error |-> "none",
      delivered_at |-> 0, valid |-> TRUE],
     NewEventLog}

InitDeliver ==
    /\ now = 1
    /\ licenses = [c \in LicenseCodes |-> LicenseRow(c)]
    /\ sessions = <<>>
    /\ listeners = <<>>
    /\ events = EmptyBag
    /\ kill_log = {}
    /\ log_failures = 0
    /\ consumed = {}
    /\ IdleProcs
    /\ outbox \in [1..2 -> OutboxRows]
    /\ tasks = <<>>
    /\ endpoint = "flaky"
    /\ webhook_url \in BOOLEAN
    /\ enq = NoCall
    /\ hook = NoHook
    /\ sched = SchedulerOff
    /\ post = NoPost

DeliverRetryFailed ==
    /\ \E limit \in RetryLimits : retry_failed(limit)
    /\ UNCHANGED lifecycle_vars

NextDeliver ==
    \/ DeliverRetryFailed \/ OutSelect \/ OutCommit

SpecDeliver == InitDeliver /\ [][NextDeliver]_vars

\* C32: _deliver_event leaves the row sent with delivered_at = now and
\* last_error cleared when no webhook URL is configured or the POST succeeds,
\* and leaves it failed with retries one higher, last_error recorded and
\* delivered_at as it was when the POST finally fails; it writes no other row.
C32_DeliveryOutcome ==
    [][(Len(tasks') = Len(tasks) - 1) =>
          \E e \in EventIds :
             /\ \A f \in EventIds \ {e} : outbox'[f] = outbox[f]
             /\ \/ /\ outbox'[e].status = "sent"
                   /\ outbox'[e].delivered_at = now
                   /\ outbox'[e].last_error = "none"
                   /\ outbox'[e].retries = outbox[e].retries
                   /\ ~webhook_url \/ outbox[e].valid
                \/ /\ webhook_url
                   /\ outbox'[e].status = "failed"
                   /\ outbox'[e].retries = outbox[e].retries + 1
                   /\ outbox'[e].last_error # "none"
                   /\ outbox'[e].delivered_at = outbox[e].delivered_at]_vars

\* the task at position t of the list is the one this step removes
Removed(t) ==
    /\ Len(tasks') = Len(tasks) - 1
    /\ \A i \in 1..Len(tasks') :
          tasks'[i].ev = (IF i < t THEN tasks[i].ev ELSE tasks[i + 1].ev)

\* what a step does to the rows whose payload fails the validation: no
\* delivery of such a row reaches the POST, the row does not become sent, the
\* delivery that ends marks it failed with retries one higher and the
\* validation error in last_error, and nothing else changes the row
InvalidMarkedFailed ==
    \A e \in EventIds :
        ~outbox[e].valid =>
            /\ \A t \in DOMAIN tasks' : tasks'[t].ev = e => tasks'[t].pc = "select"
            /\ outbox[e].status # "sent" => outbox'[e].status # "sent"
            /\ (\E t \in DOMAIN tasks : tasks[t].ev = e /\ Removed(t)) =>
                   outbox'[e] = [outbox[e] EXCEPT !.status = "failed",
                                                  !.retries = @ + 1,
                                                  !.last_error = "validation_error"]
            /\ outbox'[e] # outbox[e] =>
                   \E t \in DOMAIN tasks : tasks[t].ev = e /\ Removed(t)

C34_RetrySelectsLatestFailed ==
    [][(enq' # enq \/ Len(tasks') > Len(tasks)) =>
          LET ids == enq'.scheduled_ids
              n == Len(tasks)
          IN /\ enq'.event_type = "retry_failed"
             /\ Len(ids) = Min(enq'.limit, Cardinality(FailedEvents))
             /\ \A i \in DOMAIN ids : ids[i] \in FailedEvents
             /\ \A i, j \in DOMAIN ids : i < j => ids[i] > ids[j]
             /\ \A e \in FailedEvents :
                   (\A i \in DOMAIN ids : ids[i] # e) =>
                       \A i \in DOMAIN ids : e < ids[i]
             /\ Len(tasks') = n + Len(ids)
             /\ \A i \in 1..n : tasks'[i] = tasks[i]
             /\ \A i \in DOMAIN ids :
                   tasks'[n + i].ev = ids[i] /\ tasks'[n + i].pc = "select"
             /\ outbox' = outbox]_vars

\* a call with limit 1 found two failed rows and scheduled the later one
C34_Witness ==
    /\ enq.event_type = "retry_failed"
    /\ enq.limit = 1
    /\ enq.scheduled_ids = <<2>>
    /\ Len(tasks) = 1 /\ tasks[1].ev = 2 /\ tasks[1].pc = "select"
    /\ FailedEvents = {1, 2}


------------------------------------------------------------------------------
\* post_webhook, the transport loop (core/webhook.py lines 103-124).  Waits are
\* counted in half seconds: backoff starts at 0.5 s and is capped at 8.0 s.

\* "backoff = 0.5"
InitialBackoff == 1

\* "min(backoff * 2, 8.0)"
BackoffCap == 16

\* values of settings.ADMIN_WEBHOOK_MAX_RETRIES
MaxRetriesSettings == {-1, 0, 1, 3, 7}

\* what one client.post can give: a status code, or an exception (timeout,
\* connection error)
Exception == 0

PostOutcomes == {Exception, 199, 200, 204, 299, 300, 404, 500}

\* "if 200 <= resp.status_code < 300"
Is2xx(o) == o # Exception /\ 200 <= o /\ o < 300

\* "err = f"HTTP {resp.status_code}: ..."" and "err = str(e)"
ErrorText(o) == IF o = Exception THEN "exception" ELSE "HTTP error"

\* "backoff = min(backoff * 2, 8.0)"
DoubledBackoffUncapped(b) == b * 2

DoubledBackoff(b) == Min(b * 2, BackoffCap)

\* post_webhook up to the first client.post: without a URL it returns at once,
\* "max_retries = int(max(1, ADMIN_WEBHOOK_MAX_RETRIES))", "backoff = 0.5",
\* attempt = 1 and the request leaves
post_webhook_begin(setting) ==
    /\ post.phase = "idle"
    /\ post' = IF ~webhook_url
               THEN [NoPost EXCEPT !.phase = "done",
                                   !.result = <<FALSE, "ADMIN_WEBHOOK_URL not configured">>]
               ELSE [NoPost EXCEPT !.phase = "post", !.max_retries = Max(1, setting),
                                   !.attempt = 1, !.backoff = InitialBackoff, !.posts = 1]
    /\ UNCHANGED <<outbox, tasks, endpoint, webhook_url, enq, hook, sched>>

\* client.post of the current attempt returns or raises: a 2xx answer returns
\* (True, None); otherwise err is set and the call sleeps for backoff when
\* attempt < max_retries, and returns (False, err) when not
post_webhook_answer(o) ==
    /\ post.phase = "post"
    /\ post' = IF Is2xx(o)
               THEN [post EXCEPT !.phase = "done", !.status_code = o,
                                 !.result = <<TRUE, "none">>]
               ELSE IF post.attempt < post.max_retries
               THEN [post EXCEPT !.phase = "sleep", !.status_code = o,
                                 !.err = ErrorText(o),
                                 !.waits = Append(@, post.backoff)]
               ELSE [post EXCEPT !.phase = "done", !.status_code = o,
                                 !.err = ErrorText(o),
                                 !.result = <<FALSE, ErrorText(o)>>]
    /\ UNCHANGED <<outbox, tasks, endpoint, webhook_url, enq, hook, sched>>

\* asyncio.sleep(backoff) returns: the backoff doubles up to its cap and the
\* request of the next attempt leaves
post_webhook_wake ==
    /\ post.phase = "sleep"
    /\ post' = [post EXCEPT !.phase = "post", !.backoff = DoubledBackoff(@),
                            !.attempt = @ + 1, !.posts = @ + 1]
    /\ UNCHANGED <<outbox, tasks, endpoint, webhook_url, enq, hook, sched>>

PostBegin ==
    /\ \E setting \in MaxRetriesSettings : post_webhook_begin(setting)
    /\ UNCHANGED lifecycle_vars
PostAnswer ==
    /\ \E o \in PostOutcomes : post_webhook_answer(o)
    /\ UNCHANGED lifecycle_vars
PostWake == post_webhook_wake /\ UNCHANGED lifecycle_vars

NextPost == PostBegin \/ PostAnswer \/ PostWake

SpecPost == InitOutbox /\ [][NextPost]_vars

\* every client.post returns or raises within the httpx timeout and every
\* asyncio.sleep returns
SpecPostFair == SpecPost /\ WF_vars(PostAnswer) /\ WF_vars(PostWake)

\* the waits made so far double from 0.5 s and stay at or below 8 s
WaitsDouble ==
    \A i \in DOMAIN post.waits :
        /\ post.waits[i] = (IF i = 1 THEN InitialBackoff
                            ELSE Min(2 * post.waits[i - 1], BackoffCap))
        /\ post.waits[i] <= BackoffCap

\* C35: a post_webhook call ends after at most max(1, ADMIN_WEBHOOK_MAX_RETRIES)
\* POSTs; it returns (True, None) at the first 2xx answer with no further
\* attempt and (False, error) after the last failed attempt, and the waits
\* between the attempts double from 0.5 s and never exceed 8 s.
C35_PostWebhookBounded ==
    /\ [](post.phase # "idle" /\ webhook_url =>
             /\ post.posts <= post.max_retries
             /\ post.max_retries >= 1
             /\ Len(post.waits) \in {post.posts - 1, post.posts}
             /\ WaitsDouble
             /\ post.phase = "done" =>
                   /\ Len(post.waits) = post.posts - 1
                   /\ \/ post.result = <<TRUE, "none">> /\ Is2xx(post.status_code)
                      \/ /\ post.result = <<FALSE, post.err>>
                         /\ ~Is2xx(post.status_code)
                         /\ post.err # "none"
                         /\ post.posts = post.max_retries)
    /\ [][post.phase = "post" /\ post'.phase = "done" =>
             \/ post'.result[1] /\ post'.posts = post.posts /\ post'.err = post.err
             \/ ~post'.result[1] /\ post.attempt = post.max_retries]_vars
    /\ [][post.phase = "post" /\ post'.phase = "sleep" => ~post'.result[1]]_vars
    /\ (post.phase \in {"post", "sleep"} ~> post.phase = "done")

\* a call with seven attempts allowed failed seven times: its waits were
\* 0.5, 1, 2, 4, 8 and 8 s
C35_Witness ==
    /\ post.phase = "done"
    /\ post.result[1] = FALSE
    /\ post.posts = 7
    /\ post.waits = <<1, 2, 4, 8, 16, 16>>


------------------------------------------------------------------------------
\* POST /events/receive (api/events.py lines 68-122): verification, parsing,
\* validation and persistence of a signed request.

\* neither WEBHOOK_HMAC_SECRET nor ADMIN_WEBHOOK_SECRET is set
NoSecret == 0

\* what request.json() and the checks of lines 95-115 make of a body: body 1
\* is an event whose payload its schema accepts, body 2 an event whose payload
\* fails the validation, body 3 is no JSON object of the expected shape
BodyContent(body) ==
    IF body = 1 THEN "event" ELSE IF body = 2 THEN "invalid payload" ELSE "invalid body"

\* store_received_event: one row with status "received", committed
store_received_event(rows) == Append(rows, [NewEventLog EXCEPT !.status = "received"])

\* "if not ok: return Response(..., 400)" on the answer of the verification
NotOkNever(r) == FALSE

NotOk(r) == ~r[1]

\* the handler on the request in flight, with the secret and the max age of
\* the settings; db_fails is whether the insert raises
events_receive(secret, max_age, db_fails) ==
    /\ hook.sent
    /\ Len(outbox) < MaxEvents
    /\ LET r == verify_hmac_signature(hook.body, hook.ts, hook.sig, secret, max_age, hook.clock)
           seen == [hook EXCEPT !.secret = secret, !.max_age = max_age, !.at = hook.clock,
                                !.checked = FALSE, !.ok = FALSE, !.error = "none",
                                !.validated = FALSE]
           verified == [seen EXCEPT !.checked = TRUE, !.ok = r[1], !.error = r[2]]
       IN IF secret = NoSecret
          THEN hook' = [seen EXCEPT !.response = 500] /\ UNCHANGED outbox
          ELSE IF NotOk(r)
          THEN hook' = [verified EXCEPT !.response = 400] /\ UNCHANGED outbox
          ELSE IF BodyContent(hook.body) = "invalid body"
          THEN hook' = [verified EXCEPT !.response = 400] /\ UNCHANGED outbox
          ELSE IF BodyContent(hook.body) = "invalid payload"
          THEN /\ hook' = [verified EXCEPT !.validated = TRUE, !.response = 400]
               /\ UNCHANGED outbox
          ELSE IF db_fails
          THEN /\ hook' = [verified EXCEPT !.validated = TRUE, !.response = 500]
               /\ UNCHANGED outbox
          ELSE /\ hook' = [verified EXCEPT !.validated = TRUE, !.response = 204]
               /\ outbox' = store_received_event(outbox)
    /\ UNCHANGED <<tasks, endpoint, webhook_url, enq, sched, post>>

RecvEndpoint ==
    /\ \E secret \in Secrets \cup {NoSecret} : \E max_age \in MaxAgeInputs :
          \E db_fails \in BOOLEAN : events_receive(secret, max_age, db_fails)
    /\ UNCHANGED lifecycle_vars

NextReceive == HookPost \/ HookSend \/ HookAlter \/ HookTick \/ RecvEndpoint

SpecReceive == InitOutbox /\ [][NextReceive]_vars

\* the request the handler is given fails the verification with the secret
\* and the max age the handler uses: its timestamp is missing, no number or
\* outside the window, or its signature is missing or is not the HMAC of
\* "{timestamp}." + body under the secret
FailsVerification ==
    \/ hook.ts.kind \in {"missing", "text"}
    \/ Abs(hook.clock - hook.ts.val) > hook'.max_age
    \/ ~hook.sig.present
    \/ hook.sig # [present |-> TRUE, secret |-> hook'.secret, ts |-> hook.ts,
                   body |-> hook.body]

\* C36: the receive endpoint persists an event only after
\* verify_hmac_signature has succeeded: a request with a missing, non-numeric
\* or out-of-window timestamp or a missing or mismatching signature writes no
\* event_log row and its payload is never validated.
C36_PersistOnlyVerified ==
    [][hook'.clock = hook.clock =>
          /\ Len(outbox') > Len(outbox) \/ hook'.validated
                => hook'.checked /\ hook'.ok /\ ~FailsVerification
          /\ FailsVerification
                => outbox' = outbox /\ ~hook'.validated /\ hook'.response # 204]_vars

\* a request with the HMAC of its timestamp and body under the receiver's
\* secret, received after the window, was answered 400 and nothing was stored,
\* though its body is a valid event
C36_Witness ==
    /\ hook.checked
    /\ hook.response = 400
    /\ hook.error = "stale or future timestamp"
    /\ hook.sig = [present |-> TRUE, secret |-> hook.secret, ts |-> hook.ts, body |-> hook.body]
    /\ BodyContent(hook.body) = "event"
    /\ ~hook.validated
    /\ outbox = <<>>

\* C37: in every reachable state, also those reached by interleaving
\* join_session_by_pin with end_session or an expiry sweep on the same session,
\* no listener with is_connected = true belongs to a session with
\* is_active = false.
C37_NoConnectedInInactive ==
    \A l \in ListenerIds :
        listeners[l].is_connected => sessions[listeners[l].session_id].is_active

\* a step of the sweeper
SweeperStep == loc'["sw"] # loc["sw"] \/ pc'["sw"] # pc["sw"]

==============================================================================
